---- MODULE Spec2Model ----
(***************************************************************************)
(* Model of the Discord onboarding bot: the invite cache, the per-user     *)
(* onboarding session registry, the DM question flow and finalize.         *)
(*                                                                         *)
(* Text is modelled as a sequence of one-character strings, so that the    *)
(* validators and the sanitizer are computed character by character as     *)
(* the JavaScript does.  Every await of the code is a suspension point:   *)
(* a handler in flight is a record in the bag tasks, and one action       *)
(* resumes it with the outcome (ok / fail) of the awaited external call.   *)
(***************************************************************************)
EXTENDS Integers, Sequences, FiniteSets, Bags, TLC

(***************************************************************************)
(* Characters                                                              *)
(***************************************************************************)
Digit == {"0", "1", "2", "3", "4", "5", "6", "7", "8", "9"}
LowerCase == {"a", "b", "c", "d", "e", "f", "g", "h", "i", "j", "k", "l", "m",
              "n", "o", "p", "q", "r", "s", "t", "u", "v", "w", "x", "y", "z"}
UpperCase == {"A", "B", "C", "D", "E", "F", "G", "H", "I", "J", "K", "L", "M",
              "N", "O", "P", "Q", "R", "S", "T", "U", "V", "W", "X", "Y", "Z"}
Letter == LowerCase \cup UpperCase
AlNum == Letter \cup Digit
\* the grave accent (U+0060), which a TLA+ string cannot spell
GraveAccent == "U+0060"
\* the symbols the local part of the e-mail pattern allows besides [a-zA-Z0-9]
LocalSymbol == {".", "!", "#", "$", "%", "&", "'", "*", "+", "/", "=", "?",
                "^", "_", GraveAccent, "{", "|", "}", "~", "-"}
\* white space removed by String.prototype.trim (the part of it that a TLA+
\* string can spell)
WhiteSpace == {" ", "\t", "\n", "\r", "\f"}
\* the characters /[\r\n\t]/ matches
LineBreakOrTab == {"\r", "\n", "\t"}

toLowerCaseChar(c) ==
    CASE c = "A" -> "a" [] c = "B" -> "b" [] c = "C" -> "c" [] c = "D" -> "d"
      [] c = "E" -> "e" [] c = "F" -> "f" [] c = "G" -> "g" [] c = "H" -> "h"
      [] c = "I" -> "i" [] c = "J" -> "j" [] c = "K" -> "k" [] c = "L" -> "l"
      [] c = "M" -> "m" [] c = "N" -> "n" [] c = "O" -> "o" [] c = "P" -> "p"
      [] c = "Q" -> "q" [] c = "R" -> "r" [] c = "S" -> "s" [] c = "T" -> "t"
      [] c = "U" -> "u" [] c = "V" -> "v" [] c = "W" -> "w" [] c = "X" -> "x"
      [] c = "Y" -> "y" [] c = "Z" -> "z" [] OTHER -> c

toLowerCase(s) == [i \in 1..Len(s) |-> toLowerCaseChar(s[i])]

\* String.prototype.trim: drop leading and trailing white space
trim(s) ==
    LET keep == {i \in 1..Len(s) : s[i] \notin WhiteSpace}
    IN  IF keep = {} THEN <<>>
        ELSE LET lo == CHOOSE i \in keep : \A j \in keep : i <= j
                 hi == CHOOSE i \in keep : \A j \in keep : j <= i
             IN  SubSeq(s, lo, hi)

(***************************************************************************)
(* Validators and sanitizer (utils/validators.js)                          *)
(***************************************************************************)
\* .substring(0, 500)
MaxInputLen == 500
\* [a-zA-Z0-9-]{0,61} between the first and the last character of a label
MaxLabelMiddle == 61

\* cuts before it trims and replaces
sanitizeInput_cutFirst(input) ==
    LET c == SubSeq(input, 1, IF Len(input) < MaxInputLen THEN Len(input) ELSE MaxInputLen)
        t == trim(c)
    IN  [i \in 1..Len(t) |-> IF t[i] \in LineBreakOrTab THEN " " ELSE t[i]]

sanitizeInput(input) ==
    LET t == trim(input)
        r == [i \in 1..Len(t) |-> IF t[i] \in LineBreakOrTab THEN " " ELSE t[i]]
    IN  SubSeq(r, 1, IF Len(r) < MaxInputLen THEN Len(r) ELSE MaxInputLen)

\* asks for the length only
isValidName_anyCharacter(name) == Len(trim(name)) >= 2

isValidName(name) ==
    LET trimmed == trim(name)
    IN  Len(trimmed) >= 2 /\ \E i \in 1..Len(trimmed) : trimmed[i] \in Letter

digitsOnly(phone) == SelectSeq(phone, LAMBDA c : c \in Digit)

\* counts every character rather than the digits
isValidPhone_wholeLength(phone) == Len(phone) >= 10 /\ Len(phone) <= 15

isValidPhone(phone) ==
    Len(digitsOnly(phone)) >= 10 /\ Len(digitsOnly(phone)) <= 15

\* one or more dot-separated labels, each [a-zA-Z0-9](?:[a-zA-Z0-9-]{0,61}[a-zA-Z0-9])?
isDomain(d) ==
    /\ Len(d) >= 1
    /\ \A i \in 1..Len(d) : d[i] \in AlNum \cup {"-", "."}
    /\ d[1] \in AlNum
    /\ d[Len(d)] \in AlNum
    /\ \A i \in 2..(Len(d) - 1) :
          d[i] = "." => d[i - 1] \in AlNum /\ d[i + 1] \in AlNum
    \* a label holds at most 1 + 61 + 1 characters
    /\ \A i \in 1..(Len(d) - (MaxLabelMiddle + 2)) :
          \E j \in i..(i + MaxLabelMiddle + 2) : d[j] = "."

\* asks for a dot-separated top-level label after the first label
isValidEmail_needsDot(email) ==
    LET e == trim(email)
    IN  \E k \in 1..Len(e) :
           /\ e[k] = "@"
           /\ k >= 2
           /\ \A i \in 1..(k - 1) : e[i] \in AlNum \cup LocalSymbol
           /\ isDomain(SubSeq(e, k + 1, Len(e)))
           /\ \E j \in (k + 1)..Len(e) : e[j] = "."

isValidEmail(email) ==
    LET e == trim(email)
    IN  \E k \in 1..Len(e) :
           /\ e[k] = "@"
           /\ k >= 2
           /\ \A i \in 1..(k - 1) : e[i] \in AlNum \cup LocalSymbol
           /\ isDomain(SubSeq(e, k + 1, Len(e)))

(***************************************************************************)
(* Questions (utils/onboarding.js)                                         *)
(***************************************************************************)
QUESTION_ORDER == <<"NAME", "EMAIL", "PHONE">>

\* key, prompt and error text of a question; the texts are named, not spelled
QUESTIONS ==
    [NAME  |-> [key |-> "name",  question |-> "Q_NAME",  errorMessage |-> "E_NAME"],
     EMAIL |-> [key |-> "email", question |-> "Q_EMAIL", errorMessage |-> "E_EMAIL"],
     PHONE |-> [key |-> "phone", question |-> "Q_PHONE", errorMessage |-> "E_PHONE"]]

\* a variant of validator that checks every answer as a name
validator_nameOnly(k, s) == isValidName(s)

\* QUESTIONS[k].validator(s)
validator(k, s) ==
    CASE k = "NAME"  -> isValidName(s)
      [] k = "EMAIL" -> isValidEmail(s)
      [] k = "PHONE" -> isValidPhone(s)

(***************************************************************************)
(* Allow-list lookup (utils/emailVerification.js)                          *)
(*                                                                         *)
(* The roster file is [state, learners]: state is "missing" (no file),     *)
(* "unreadable" (readFileSync throws), "malformed" (JSON.parse throws or   *)
(* the value is no array) or "ok", and                                     *)
(* learners is the parsed array; an entry is a record with an email that   *)
(* is a text or NoEmail (absent or empty), or NullEntry.                   *)
(***************************************************************************)
NoEmail == <<>>
\* a null element of the array: reading its email throws inside find
NullEntry == [email |-> <<"null">>]

\* learner.email && learner.email.toLowerCase().trim() === normalizedEmail
matchesLearner(learner, normalizedEmail) ==
    /\ learner # NullEntry
    /\ learner.email # NoEmail
    /\ trim(toLowerCase(learner.email)) = normalizedEmail

\* a variant of verifyPaidLearner that compares the e-mails as they are written
verifyPaidLearner_exact(rosterFile, email) ==
    IF rosterFile.state \in {"missing", "unreadable", "malformed"} THEN FALSE
    ELSE \E i \in 1..Len(rosterFile.learners) :
            /\ rosterFile.learners[i] # NullEntry
            /\ rosterFile.learners[i].email = email
            /\ \A j \in 1..(i - 1) : rosterFile.learners[j] # NullEntry

\* a variant of verifyPaidLearner that steps over the null elements of the array
verifyPaidLearner_skipsNull(rosterFile, email) ==
    IF rosterFile.state \in {"missing", "unreadable", "malformed"} THEN FALSE
    ELSE \E i \in 1..Len(rosterFile.learners) :
            matchesLearner(rosterFile.learners[i], trim(toLowerCase(email)))

\* isVerified of the result; every throw inside is caught and yields FALSE
verifyPaidLearner(rosterFile, email) ==
    IF rosterFile.state \in {"missing", "unreadable", "malformed"} THEN FALSE
    ELSE LET normalizedEmail == trim(toLowerCase(email))
             paidLearners == rosterFile.learners
         IN  \E i \in 1..Len(paidLearners) :
                /\ matchesLearner(paidLearners[i], normalizedEmail)
                /\ \A j \in 1..(i - 1) : paidLearners[j] # NullEntry

(***************************************************************************)
(* Invite tracker, pure part (index.js)                                    *)
(*                                                                         *)
(* A fetched invite is [code, uses, channel]; channel is NoChannel or      *)
(* [name, id].  A guild's cache is [has, uses]: has says whether the map   *)
(* holds an entry for the guild, uses is its Collection code -> uses.      *)
(***************************************************************************)
NoChannel == [name |-> "none", id |-> "none"]
NoCache == [has |-> FALSE, uses |-> <<>>]
Cache(uses) == [has |-> TRUE, uses |-> uses]
NoInvite == [code |-> "none", uses |-> 0, channel |-> NoChannel]

\* new Collection(fetched.map(invite => [invite.code, invite.uses]))
usesByCode(fetched) ==
    [c \in {fetched[i].code : i \in 1..Len(fetched)} |->
        LET last == CHOOSE i \in 1..Len(fetched) :
                       /\ fetched[i].code = c
                       /\ \A j \in 1..Len(fetched) : fetched[j].code = c => j <= i
        IN  fetched[last].uses]

\* a variant of findUsedInvite that compares with >= instead of >
findUsedInvite_notLess(oldInvites, newInvites) ==
    LET hits == {i \in 1..Len(newInvites) :
                    /\ newInvites[i].code \in DOMAIN oldInvites
                    /\ newInvites[i].uses >= oldInvites[newInvites[i].code]}
    IN  IF hits = {} THEN NoInvite
        ELSE newInvites[CHOOSE i \in hits : \A j \in hits : i <= j]

\* newInvites.find(inv => oldUses !== undefined && inv.uses > oldUses)
findUsedInvite(oldInvites, newInvites) ==
    LET hits == {i \in 1..Len(newInvites) :
                    /\ newInvites[i].code \in DOMAIN oldInvites
                    /\ newInvites[i].uses > oldInvites[newInvites[i].code]}
    IN  IF hits = {} THEN NoInvite
        ELSE newInvites[CHOOSE i \in hits : \A j \in hits : i <= j]

(***************************************************************************)
(* Bounds and inputs                                                       *)
(***************************************************************************)
\* member-join events in one run
MaxJoins == 2
\* handlers suspended on an await at the same time
MaxTasks == 2

Users == {"u1"}
\* member.user.tag
Tag(u) == IF u = "u1" THEN "alice#0001" ELSE "bob#0002"
Guilds == {"g1"}
\* the guilds of client.guilds.cache, in iteration order
ClientGuilds == <<"g1">>
Codes == {"A", "B"}
\* the channel an invite code leads to: A to a course channel, B to none
ChannelOfCode(c) ==
    IF c = "A" THEN [name |-> "course-a", id |-> "ch1"] ELSE NoChannel

TxtName == <<" ", "J", "\t", "o", "\n">>
TxtSeven == <<"7">>
TxtEmailPaid == <<"1", "@", "2", ".", "3">>
TxtEmailOther == <<"1", "@", "2">>
TxtPhone == <<"+", "1", "2", "3", "4", "5", "6", "7", "8", "9", "0">>
\* what a user may type in a DM
Texts == {TxtName, TxtSeven, TxtEmailPaid, TxtEmailOther, TxtPhone}
\* the messages the bot may see: every text as a DM, one guild message and one
\* message written by a bot
Messages == {<<text, "dm">> : text \in Texts} \cup {<<TxtName, "guild">>, <<TxtName, "bot">>}
\* the interactions the bot may see: <<isButton, customId>>
Interactions == {<<TRUE, "start_onboarding">>, <<TRUE, "other">>, <<FALSE, "select_menu">>}
\* paidLearners.json
PaidLearners ==
    [state |-> "ok",
     learners |-> <<[email |-> NoEmail], [email |-> <<" ", "1", "@", "2", ".", "3">>]>>]

(***************************************************************************)
(* State                                                                   *)
(***************************************************************************)
VARIABLES
    process,             \* the Node process: "loading", "login", "running" or "exited"
    isReady,             \* the ready event has fired (client.once)
    invites,             \* index.js: guild -> cache of code -> uses
    onboardingSessions,  \* index.js: user id -> session object (its slot) or NoSession
    sessionObjs,         \* the session objects still referenced, by slot
    tasks,               \* bag of handlers suspended on an await
    guildInvites,        \* platform: guild -> sequence of invites
    nJoined,             \* platform: member-join events so far
    rosterFile,          \* paidLearners.json
    sheet,               \* spreadsheet: rows appended
    memberRoles,         \* platform: users holding the learner role
    overwrites,          \* platform: <<channel id, user>> permission overwrites
    last                 \* history: the step taken last

vars == <<process, isReady, invites, onboardingSessions, sessionObjs, tasks, guildInvites,
          nJoined, rosterFile, sheet, memberRoles, overwrites, last>>

NoSession == 0
NoId == "null"
NoUser == "-"

\* session.data: a field not yet stored reads undefined
Undefined == <<"undefined">>
NoData == [name |-> Undefined, email |-> Undefined, phone |-> Undefined]

\* a slot that holds no session object
Free ==
    [userId |-> NoUser, username |-> "", guildId |-> "", channelName |-> "",
     channelId |-> NoId, currentStep |-> 0, data |-> NoData, started |-> FALSE]

\* a session object is referenced by at most the registry entry of every user and
\* the handlers in flight
Slots == 1..(Cardinality(Users) + MaxTasks)

\* a handler in flight: the handler, the await it is suspended on, and its locals
\* (sid: the session object it holds; msg: the message a pending send carries;
\* snap: the invites a pending fetch will return; ch: the channel inferred at
\* join; row: the sheetData of a pending append; rest: the guilds the ready loop
\* has still to cache).  Two fields are history of a finalize run: verified (the
\* result of its allow-list lookup) and fx, what it did so far: "processing",
\* "rejection", "confirmation" (DM delivered), "link" (the confirmation carried
\* the channel link), "append", "role", "overwrite", "channelWelcome" (call
\* succeeded), "channelNotFound", "overwriteFailed", "channelWelcomeFailed" (a
\* failure the run swallowed), "failure" (failure message issued).
NoRow == [name |-> <<>>, email |-> <<>>, phone |-> <<>>,
          discordUsername |-> "", channel |-> ""]
Task(h, pc, user, guild, sid) ==
    [h |-> h, pc |-> pc, user |-> user, guild |-> guild, sid |-> sid,
     msg |-> "", snap |-> <<>>, ch |-> NoChannel, row |-> NoRow, rest |-> <<>>,
     verified |-> "none", fx |-> {}]

Suspended == BagToSet(tasks)
NumTasks == BagCardinality(tasks)
spawn(t) == tasks (+) SetToBag({t})
finish(t) == tasks (-) SetToBag({t})
move(t, t2) == (tasks (-) SetToBag({t})) (+) SetToBag({t2})

\* the slots of objs still referenced from the registry reg or the handlers tks;
\* the others are garbage and are cleared
collect(objs, reg, tks) ==
    LET live == {reg[u] : u \in Users} \cup {t.sid : t \in BagToSet(tks)}
    IN  [i \in Slots |-> IF i \in live THEN objs[i] ELSE Free]

Step(op, user, sid, res) == [op |-> op, user |-> user, sid |-> sid, res |-> res]

Init ==
    /\ process = "running"
    /\ isReady = FALSE
    /\ invites = [g \in Guilds |-> NoCache]
    /\ onboardingSessions = [u \in Users |-> NoSession]
    /\ sessionObjs = [i \in Slots |-> Free]
    /\ tasks = EmptyBag
    /\ guildInvites = [g \in Guilds |-> <<[code |-> "A", uses |-> 0, channel |-> ChannelOfCode("A")]>>]
    /\ nJoined = 0
    /\ rosterFile = PaidLearners
    /\ sheet = <<>>
    /\ memberRoles = {}
    /\ overwrites = {}
    /\ last = Step("init", NoUser, NoSession, "")

(***************************************************************************)
(* Invite tracker (index.js)                                               *)
(***************************************************************************)
\* client.once('ready'): cacheInvites(guild) for every guild, awaited in turn
ready ==
    /\ process = "running"
    /\ ~isReady
    /\ isReady' = TRUE
    /\ tasks' = IF ClientGuilds = <<>> THEN tasks
                ELSE spawn([Task("ready", "fetchInvites", NoUser, Head(ClientGuilds), NoSession)
                              EXCEPT !.snap = guildInvites[Head(ClientGuilds)],
                                     !.rest = Tail(ClientGuilds)])
    /\ last' = Step("ready", NoUser, NoSession, "")
    /\ UNCHANGED <<process, invites, onboardingSessions, sessionObjs, guildInvites, nJoined,
                   rosterFile, sheet, memberRoles, overwrites>>

\* client.on('guildCreate'): cacheInvites(guild)
guildCreate(g) ==
    /\ isReady
    /\ NumTasks < MaxTasks
    /\ tasks' = spawn([Task("guildCreate", "fetchInvites", NoUser, g, NoSession)
                         EXCEPT !.snap = guildInvites[g]])
    /\ last' = Step("guildCreate", NoUser, NoSession, g)
    /\ UNCHANGED <<process, isReady, invites, onboardingSessions, sessionObjs, guildInvites,
                   nJoined, rosterFile, sheet, memberRoles, overwrites>>

\* a variant of cacheInvites that sets the fetched counts in the Collection it
\* finds instead of replacing it
cacheInvites_merges(t, ok) ==
    /\ t \in Suspended
    /\ t.h \in {"ready", "guildCreate"}
    /\ t.pc = "fetchInvites"
    /\ invites' = IF ok
                  THEN [invites EXCEPT ![t.guild] =
                          Cache([c \in DOMAIN @.uses \cup DOMAIN usesByCode(t.snap) |->
                                    IF c \in DOMAIN usesByCode(t.snap)
                                    THEN usesByCode(t.snap)[c] ELSE @.uses[c]])]
                  ELSE invites
    /\ tasks' = IF t.h = "ready" /\ t.rest # <<>>
                THEN move(t, [t EXCEPT !.guild = Head(t.rest),
                                       !.snap = guildInvites[Head(t.rest)],
                                       !.rest = Tail(t.rest)])
                ELSE finish(t)
    /\ last' = Step("cacheInvites", NoUser, NoSession, IF ok THEN "ok" ELSE "fail")
    /\ UNCHANGED <<process, isReady, onboardingSessions, sessionObjs, guildInvites, nJoined,
                   rosterFile, sheet, memberRoles, overwrites>>

\* cacheInvites after its await: the fetch resolved (ok) or rejected
cacheInvites(t, ok) ==
    /\ t \in Suspended
    /\ t.h \in {"ready", "guildCreate"}
    /\ t.pc = "fetchInvites"
    /\ invites' = IF ok THEN [invites EXCEPT ![t.guild] = Cache(usesByCode(t.snap))]
                  ELSE invites
    /\ tasks' = IF t.h = "ready" /\ t.rest # <<>>
                THEN move(t, [t EXCEPT !.guild = Head(t.rest),
                                       !.snap = guildInvites[Head(t.rest)],
                                       !.rest = Tail(t.rest)])
                ELSE finish(t)
    /\ last' = Step("cacheInvites", NoUser, NoSession, IF ok THEN "ok" ELSE "fail")
    /\ UNCHANGED <<process, isReady, onboardingSessions, sessionObjs, guildInvites, nJoined,
                   rosterFile, sheet, memberRoles, overwrites>>

\* client.on('inviteCreate'); the platform has added the invite, with no uses
inviteCreate(g, c) ==
    /\ isReady
    /\ \A i \in 1..Len(guildInvites[g]) : guildInvites[g][i].code # c
    /\ guildInvites' = [guildInvites EXCEPT ![g] =
                          Append(@, [code |-> c, uses |-> 0, channel |-> ChannelOfCode(c)])]
    /\ invites' = [invites EXCEPT ![g] =
                      Cache([x \in DOMAIN @.uses \cup {c} |->
                                IF x = c THEN 0 ELSE @.uses[x]])]
    /\ last' = Step("inviteCreate", NoUser, NoSession, c)
    /\ UNCHANGED <<process, isReady, onboardingSessions, sessionObjs, tasks, nJoined,
                   rosterFile, sheet, memberRoles, overwrites>>

\* a variant of inviteDelete that drops the cache of the guild
\* (invites.delete(invite.guild.id))
inviteDelete_clears(g, i) ==
    /\ isReady
    /\ i \in 1..Len(guildInvites[g])
    /\ guildInvites' = [guildInvites EXCEPT ![g] =
                          SubSeq(@, 1, i - 1) \o SubSeq(@, i + 1, Len(@))]
    /\ invites' = [invites EXCEPT ![g] = NoCache]
    /\ last' = Step("inviteDelete", NoUser, NoSession, guildInvites[g][i].code)
    /\ UNCHANGED <<process, isReady, onboardingSessions, sessionObjs, tasks, nJoined,
                   rosterFile, sheet, memberRoles, overwrites>>

\* client.on('inviteDelete'); the platform has removed the invite
inviteDelete(g, i) ==
    /\ isReady
    /\ i \in 1..Len(guildInvites[g])
    /\ guildInvites' = [guildInvites EXCEPT ![g] =
                          SubSeq(@, 1, i - 1) \o SubSeq(@, i + 1, Len(@))]
    /\ invites' = [invites EXCEPT ![g] =
                      IF ~@.has THEN @
                      ELSE Cache([x \in DOMAIN @.uses \ {guildInvites[g][i].code} |->
                                    @.uses[x]])]
    /\ last' = Step("inviteDelete", NoUser, NoSession, guildInvites[g][i].code)
    /\ UNCHANGED <<process, isReady, onboardingSessions, sessionObjs, tasks, nJoined,
                   rosterFile, sheet, memberRoles, overwrites>>

(***************************************************************************)
(* Member join (index.js guildMemberAdd, onboarding.js handleOnboarding)   *)
(***************************************************************************)
\* client.on('guildMemberAdd'): the member joined through invite number via of
\* the guild (0: through no invite); the handler calls detectUsedInvite, which
\* suspends on the fetch
guildMemberAdd(u, g, via) ==
    /\ isReady
    /\ nJoined < MaxJoins
    /\ NumTasks < MaxTasks
    /\ via \in 0..Len(guildInvites[g])
    /\ nJoined' = nJoined + 1
    /\ guildInvites' = IF via = 0 THEN guildInvites
                       ELSE [guildInvites EXCEPT ![g][via].uses = @ + 1]
    /\ tasks' = spawn([Task("guildMemberAdd", "fetchInvites", u, g, NoSession)
                         EXCEPT !.snap = guildInvites'[g]])
    /\ last' = Step("guildMemberAdd", u, NoSession, "")
    /\ UNCHANGED <<process, isReady, invites, onboardingSessions, sessionObjs, rosterFile,
                   sheet, memberRoles, overwrites>>

\* channelName / channelId the join handler derives from the detected invite
inferredChannel(usedInvite) ==
    IF usedInvite # NoInvite /\ usedInvite.channel # NoChannel
    THEN usedInvite.channel
    ELSE [name |-> "Unknown", id |-> NoId]

\* a variant of detectUsedInvite without its try/catch: a failed fetch rejects
\* the join handler, which ends there
detectUsedInvite_rethrows(t, ok) ==
    /\ t \in Suspended
    /\ t.h = "guildMemberAdd"
    /\ t.pc = "fetchInvites"
    /\ LET oldInvites == invites[t.guild]
           usedInvite == IF oldInvites.has
                         THEN findUsedInvite(oldInvites.uses, t.snap)
                         ELSE NoInvite
       IN  /\ invites' = IF ok /\ oldInvites.has
                         THEN [invites EXCEPT ![t.guild] = Cache(usesByCode(t.snap))]
                         ELSE invites
           /\ tasks' = IF ok
                       THEN move(t, [t EXCEPT !.pc = "createDM", !.snap = <<>>,
                                              !.ch = inferredChannel(usedInvite)])
                       ELSE finish(t)
           /\ last' = Step("detectUsedInvite", t.user, NoSession,
                           IF ok THEN usedInvite.code ELSE "fail")
    /\ UNCHANGED <<process, isReady, onboardingSessions, sessionObjs, guildInvites, nJoined,
                   rosterFile, sheet, memberRoles, overwrites>>

\* detectUsedInvite after its await, then the join handler up to createDM()
detectUsedInvite(t, ok) ==
    /\ t \in Suspended
    /\ t.h = "guildMemberAdd"
    /\ t.pc = "fetchInvites"
    /\ LET oldInvites == invites[t.guild]
           usedInvite == IF ok /\ oldInvites.has
                         THEN findUsedInvite(oldInvites.uses, t.snap)
                         ELSE NoInvite
       IN  /\ invites' = IF ok /\ oldInvites.has
                         THEN [invites EXCEPT ![t.guild] = Cache(usesByCode(t.snap))]
                         ELSE invites
           /\ tasks' = move(t, [t EXCEPT !.pc = "createDM", !.snap = <<>>,
                                         !.ch = inferredChannel(usedInvite)])
           /\ last' = Step("detectUsedInvite", t.user, NoSession,
                           IF ok THEN usedInvite.code ELSE "fail")
    /\ UNCHANGED <<process, isReady, onboardingSessions, sessionObjs, guildInvites, nJoined,
                   rosterFile, sheet, memberRoles, overwrites>>

\* a variant of newSession that starts at the second question
newSession_atOne(u, g, ch) ==
    [userId |-> u, username |-> Tag(u), guildId |-> g,
     channelName |-> ch.name, channelId |-> ch.id,
     currentStep |-> 1, data |-> NoData, started |-> FALSE]

\* the session object handleOnboarding builds
newSession(u, g, ch) ==
    [userId |-> u, username |-> Tag(u), guildId |-> g,
     channelName |-> ch.name, channelId |-> ch.id,
     currentStep |-> 0, data |-> NoData, started |-> FALSE]

\* a variant of handleOnboarding that keeps the session a user already has
handleOnboarding_keepsOld(t, ok) ==
    /\ t \in Suspended
    /\ t.h = "guildMemberAdd"
    /\ t.pc = "createDM"
    /\ IF ok /\ onboardingSessions[t.user] # NoSession
       THEN /\ tasks' = move(t, [t EXCEPT !.pc = "sendWelcome", !.msg = "WELCOME",
                                          !.ch = NoChannel])
            /\ last' = Step("handleOnboarding", t.user, onboardingSessions[t.user], "ok")
            /\ UNCHANGED <<sessionObjs, onboardingSessions>>
       ELSE IF ok
       THEN LET held == {x.sid : x \in Suspended}
                slot == CHOOSE i \in Slots :
                           /\ i \notin held /\ \A u \in Users \ {t.user} : onboardingSessions[u] # i
                           /\ \A j \in Slots :
                                 (j \notin held /\ \A u \in Users \ {t.user} : onboardingSessions[u] # j)
                                    => i <= j
            IN  /\ onboardingSessions' = [onboardingSessions EXCEPT ![t.user] = slot]
                /\ tasks' = move(t, [t EXCEPT !.pc = "sendWelcome", !.msg = "WELCOME",
                                              !.ch = NoChannel])
                /\ sessionObjs' =
                      collect([sessionObjs EXCEPT ![slot] = newSession(t.user, t.guild, t.ch)],
                              onboardingSessions', tasks')
                /\ last' = Step("handleOnboarding", t.user, slot, "ok")
       ELSE /\ tasks' = finish(t)
            /\ last' = Step("handleOnboarding", t.user, NoSession, "fail")
            /\ UNCHANGED <<sessionObjs, onboardingSessions>>
    /\ UNCHANGED <<process, isReady, invites, guildInvites, nJoined, rosterFile, sheet,
                   memberRoles, overwrites>>

\* handleOnboarding after createDM(): no DM channel -> return; else register
\* the session (sessions.set replaces an entry of the same user) and send the
\* welcome message
handleOnboarding(t, ok) ==
    /\ t \in Suspended
    /\ t.h = "guildMemberAdd"
    /\ t.pc = "createDM"
    /\ IF ok
       THEN LET held == {x.sid : x \in Suspended}
                slot == CHOOSE i \in Slots :
                           /\ i \notin held /\ \A u \in Users \ {t.user} : onboardingSessions[u] # i
                           /\ \A j \in Slots :
                                 (j \notin held /\ \A u \in Users \ {t.user} : onboardingSessions[u] # j)
                                    => i <= j
            IN  /\ onboardingSessions' = [onboardingSessions EXCEPT ![t.user] = slot]
                /\ tasks' = move(t, [t EXCEPT !.pc = "sendWelcome", !.msg = "WELCOME",
                                              !.ch = NoChannel])
                /\ sessionObjs' =
                      collect([sessionObjs EXCEPT ![slot] = newSession(t.user, t.guild, t.ch)],
                              onboardingSessions', tasks')
                /\ last' = Step("handleOnboarding", t.user, slot, "ok")
       ELSE /\ tasks' = finish(t)
            /\ last' = Step("handleOnboarding", t.user, NoSession, "fail")
            /\ UNCHANGED <<sessionObjs, onboardingSessions>>
    /\ UNCHANGED <<process, isReady, invites, guildInvites, nJoined, rosterFile, sheet,
                   memberRoles, overwrites>>

\* a variant of sendWelcome whose catch only logs
sendWelcome_onlyLogs(t, ok) ==
    /\ t \in Suspended
    /\ t.h = "guildMemberAdd"
    /\ t.pc = "sendWelcome"
    /\ tasks' = finish(t)
    /\ sessionObjs' = collect(sessionObjs, onboardingSessions, tasks')
    /\ last' = Step("sendWelcome", t.user, onboardingSessions[t.user],
                    IF ok THEN "ok" ELSE "fail")
    /\ UNCHANGED <<process, isReady, invites, onboardingSessions, guildInvites, nJoined,
                   rosterFile, sheet, memberRoles, overwrites>>

\* dm.send(welcome) settled; its catch deletes the registry entry of the member
sendWelcome(t, ok) ==
    /\ t \in Suspended
    /\ t.h = "guildMemberAdd"
    /\ t.pc = "sendWelcome"
    /\ onboardingSessions' = IF ok THEN onboardingSessions
                             ELSE [onboardingSessions EXCEPT ![t.user] = NoSession]
    /\ tasks' = finish(t)
    /\ sessionObjs' = collect(sessionObjs, onboardingSessions', tasks')
    /\ last' = Step("sendWelcome", t.user, onboardingSessions[t.user],
                    IF ok THEN "ok" ELSE "fail")
    /\ UNCHANGED <<process, isReady, invites, guildInvites, nJoined, rosterFile, sheet,
                   memberRoles, overwrites>>

(***************************************************************************)
(* Start button (index.js interactionCreate)                               *)
(***************************************************************************)
\* Node without a listener for unhandledRejection: the rejection ends the process
unhandledRejection_exits == process' = "exited"

\* process.on('unhandledRejection'): the rejection of a handler's promise is
\* logged and the process goes on
unhandledRejection == process' = process

\* a variant of interactionCreate that puts a started session back to the
\* first question
interactionCreate_restarts(u, isButton, customId) ==
    /\ isReady
    /\ LET sid == onboardingSessions[u]
       IN  IF ~isButton \/ customId # "start_onboarding"
           THEN /\ last' = Step("interactionCreate", u, NoSession, "other")
                /\ UNCHANGED <<sessionObjs, tasks>>
           ELSE IF sid = NoSession
           THEN /\ NumTasks < MaxTasks
                /\ tasks' = spawn([Task("interactionCreate", "reply", u, "-", NoSession)
                                     EXCEPT !.msg = "SESSION_NOT_FOUND"])
                /\ last' = Step("interactionCreate", u, NoSession, "no_session")
                /\ UNCHANGED sessionObjs
           ELSE /\ NumTasks < MaxTasks
                /\ sessionObjs' = [sessionObjs EXCEPT ![sid].started = TRUE,
                                                      ![sid].currentStep = 0]
                /\ tasks' = spawn(Task("interactionCreate", "update", u, "-", NoSession))
                /\ last' = Step("interactionCreate", u, sid, "started")
    /\ UNCHANGED <<process, isReady, invites, onboardingSessions, guildInvites, nJoined,
                   rosterFile, sheet, memberRoles, overwrites>>

\* client.on('interactionCreate')
interactionCreate(u, isButton, customId) ==
    /\ isReady
    /\ LET sid == onboardingSessions[u]
       IN  IF ~isButton \/ customId # "start_onboarding"
           THEN /\ last' = Step("interactionCreate", u, NoSession, "other")
                /\ UNCHANGED <<sessionObjs, tasks>>
           ELSE IF sid = NoSession
           THEN /\ NumTasks < MaxTasks
                /\ tasks' = spawn([Task("interactionCreate", "reply", u, "-", NoSession)
                                     EXCEPT !.msg = "SESSION_NOT_FOUND"])
                /\ last' = Step("interactionCreate", u, NoSession, "no_session")
                /\ UNCHANGED sessionObjs
           ELSE /\ NumTasks < MaxTasks
                /\ sessionObjs' = [sessionObjs EXCEPT ![sid].started = TRUE]
                /\ tasks' = spawn(Task("interactionCreate", "update", u, "-", NoSession))
                /\ last' = Step("interactionCreate", u, sid, "started")
    /\ UNCHANGED <<process, isReady, invites, onboardingSessions, guildInvites, nJoined,
                   rosterFile, sheet, memberRoles, overwrites>>

\* the handler after interaction.reply, interaction.update or interaction.followUp
\* settled; a rejection is not caught by the handler (unhandledRejection logs it)
interactionResume(t, ok) ==
    /\ t \in Suspended
    /\ t.h = "interactionCreate"
    /\ tasks' = IF t.pc = "update" /\ ok
                THEN move(t, [t EXCEPT !.pc = "followUp",
                                       !.msg = QUESTIONS[QUESTION_ORDER[1]].question])
                ELSE finish(t)
    /\ last' = Step(t.pc, t.user, NoSession, IF ok THEN "ok" ELSE "unhandledRejection")
    /\ IF ok THEN UNCHANGED process ELSE unhandledRejection
    /\ UNCHANGED <<isReady, invites, onboardingSessions, sessionObjs, guildInvites,
                   nJoined, rosterFile, sheet, memberRoles, overwrites>>

(***************************************************************************)
(* DM answers (index.js messageCreate, onboarding.js handleResponse)       *)
(***************************************************************************)
\* a variant of rejectAnswer that moves on to the next question all the same
rejectAnswer_advances(u, sid, currentQuestion) ==
    /\ tasks' = spawn([Task("messageCreate", "sendError", u, "-", NoSession)
                         EXCEPT !.msg = currentQuestion.errorMessage])
    /\ last' = Step("messageCreate", u, sid, "invalid")
    /\ sessionObjs' = [sessionObjs EXCEPT ![sid].currentStep = @ + 1]

\* the validator rejected userInput: send the error text and return
rejectAnswer(u, sid, currentQuestion) ==
    /\ tasks' = spawn([Task("messageCreate", "sendError", u, "-", NoSession)
                         EXCEPT !.msg = currentQuestion.errorMessage])
    /\ last' = Step("messageCreate", u, sid, "invalid")
    /\ UNCHANGED sessionObjs

\* a variant of acceptAnswer that advances by two questions
acceptAnswer_twoSteps(u, sid, currentQuestion, userInput) ==
    LET session == sessionObjs[sid]
    IN  /\ sessionObjs' =
              [sessionObjs EXCEPT ![sid].data[currentQuestion.key] = userInput,
                                  ![sid].currentStep = @ + 2]
        /\ IF session.currentStep + 2 < Len(QUESTION_ORDER)
           THEN /\ tasks' = spawn([Task("messageCreate", "sendNext", u, "-", NoSession)
                     EXCEPT !.msg =
                       QUESTIONS[QUESTION_ORDER[session.currentStep + 3]].question])
                /\ last' = Step("messageCreate", u, sid, "stored")
           ELSE /\ tasks' = spawn([Task("messageCreate", "sendProcessing", u, "-", sid)
                                     EXCEPT !.msg = "PROCESSING"])
                /\ last' = Step("messageCreate", u, sid, "finalize")

\* a variant of acceptAnswer without "session.currentStep++"
acceptAnswer_sameStep(u, sid, currentQuestion, userInput) ==
    LET session == sessionObjs[sid]
    IN  /\ sessionObjs' =
              [sessionObjs EXCEPT ![sid].data[currentQuestion.key] = userInput]
        /\ IF session.currentStep + 1 < Len(QUESTION_ORDER)
           THEN /\ tasks' = spawn([Task("messageCreate", "sendNext", u, "-", NoSession)
                     EXCEPT !.msg =
                       QUESTIONS[QUESTION_ORDER[session.currentStep + 2]].question])
                /\ last' = Step("messageCreate", u, sid, "stored")
           ELSE /\ tasks' = spawn([Task("messageCreate", "sendProcessing", u, "-", sid)
                                     EXCEPT !.msg = "PROCESSING"])
                /\ last' = Step("messageCreate", u, sid, "finalize")

\* the validator accepted userInput: store it, advance, then send the next
\* question or start finalizeOnboarding (up to its 'processing' send)
acceptAnswer(u, sid, currentQuestion, userInput) ==
    LET session == sessionObjs[sid]
    IN  /\ sessionObjs' =
              [sessionObjs EXCEPT ![sid].data[currentQuestion.key] = userInput,
                                  ![sid].currentStep = @ + 1]
        /\ IF session.currentStep + 1 < Len(QUESTION_ORDER)
           THEN /\ tasks' = spawn([Task("messageCreate", "sendNext", u, "-", NoSession)
                     EXCEPT !.msg =
                       QUESTIONS[QUESTION_ORDER[session.currentStep + 2]].question])
                /\ last' = Step("messageCreate", u, sid, "stored")
           ELSE /\ tasks' = spawn([Task("messageCreate", "sendProcessing", u, "-", sid)
                                     EXCEPT !.msg = "PROCESSING"])
                /\ last' = Step("messageCreate", u, sid, "finalize")

\* a variant of handleResponse that runs finalizeOnboarding again for a DM to a
\* session whose questions are all answered
handleResponse_refinalizes(u, sid, text) ==
    LET session == sessionObjs[sid]
        userInput == sanitizeInput(text)
    IN  IF session.currentStep >= Len(QUESTION_ORDER)
        THEN /\ tasks' = spawn([Task("messageCreate", "sendProcessing", u, "-", sid)
                                  EXCEPT !.msg = "PROCESSING"])
             /\ last' = Step("messageCreate", u, sid, "finalize")
             /\ UNCHANGED sessionObjs
        ELSE LET currentQuestionKey == QUESTION_ORDER[session.currentStep + 1]
                 currentQuestion == QUESTIONS[currentQuestionKey]
             IN  IF ~validator(currentQuestionKey, userInput)
                 THEN rejectAnswer(u, sid, currentQuestion)
                 ELSE acceptAnswer(u, sid, currentQuestion, userInput)

\* handleResponse up to its first await, for session object sid and DM text.
\* With currentStep past the last question currentQuestion is undefined and
\* reading its validator throws; messageCreate catches and sends the error reply.
handleResponse(u, sid, text) ==
    LET session == sessionObjs[sid]
        userInput == sanitizeInput(text)
    IN  IF session.currentStep >= Len(QUESTION_ORDER)
        THEN /\ tasks' = spawn([Task("messageCreate", "sendErrorReply", u, "-", NoSession)
                                  EXCEPT !.msg = "ERROR_REPLY"])
             /\ last' = Step("messageCreate", u, sid, "type_error")
             /\ UNCHANGED sessionObjs
        ELSE LET currentQuestionKey == QUESTION_ORDER[session.currentStep + 1]
                 currentQuestion == QUESTIONS[currentQuestionKey]
             IN  IF ~validator(currentQuestionKey, userInput)
                 THEN rejectAnswer(u, sid, currentQuestion)
                 ELSE acceptAnswer(u, sid, currentQuestion, userInput)

\* a variant of dispatch without "if (!session.started) return"
dispatch_noStartGate(u, src) ==
    IF src # "dm" THEN "not_dm"
    ELSE IF onboardingSessions[u] = NoSession THEN "no_session"
    ELSE "handle"

\* the early returns of the messageCreate handler: why a message is not handed
\* to handleResponse ("handle": it is)
dispatch(u, src) ==
    LET sid == onboardingSessions[u]
    IN  IF src # "dm" THEN "not_dm"
        ELSE IF sid = NoSession THEN "no_session"
        ELSE IF ~sessionObjs[sid].started THEN "not_started"
        ELSE "handle"

\* a variant of ignoreMessage that answers a DM of a user without a session, as
\* the start button does
ignoreMessage_replies(u, res) ==
    /\ last' = Step("messageCreate", u, onboardingSessions[u], res)
    /\ tasks' = IF res = "no_session"
                THEN spawn([Task("messageCreate", "sendErrorReply", u, "-", NoSession)
                              EXCEPT !.msg = "SESSION_NOT_FOUND"])
                ELSE tasks
    /\ UNCHANGED sessionObjs

\* an early return: nothing is sent, nothing changes
ignoreMessage(u, res) ==
    /\ last' = Step("messageCreate", u, onboardingSessions[u], res)
    /\ UNCHANGED <<sessionObjs, tasks>>

\* client.on('messageCreate'): src is "dm", "guild" (message.guild set) or "bot"
messageCreate(u, text, src) ==
    /\ isReady
    /\ IF dispatch(u, src) # "handle"
       THEN ignoreMessage(u, dispatch(u, src))
       ELSE /\ NumTasks < MaxTasks
            /\ handleResponse(u, onboardingSessions[u], text)
    /\ UNCHANGED <<process, isReady, invites, onboardingSessions, guildInvites, nJoined,
                   rosterFile, sheet, memberRoles, overwrites>>

\* message.channel.send of the error text or of the next question settled; a
\* rejection propagates to the catch of messageCreate, which sends the error reply
handleResponseSent(t, ok) ==
    /\ t \in Suspended
    /\ t.h = "messageCreate"
    /\ t.pc \in {"sendError", "sendNext"}
    /\ tasks' = IF ok THEN finish(t)
                ELSE move(t, [t EXCEPT !.pc = "sendErrorReply", !.msg = "ERROR_REPLY"])
    /\ last' = Step(t.pc, t.user, NoSession, IF ok THEN "ok" ELSE "fail")
    /\ UNCHANGED <<process, isReady, invites, onboardingSessions, sessionObjs, guildInvites,
                   nJoined, rosterFile, sheet, memberRoles, overwrites>>

\* a variant of errorReplySent whose catch also drops the session of the user
errorReplySent_deletes(t, ok) ==
    /\ t \in Suspended
    /\ t.h = "messageCreate"
    /\ t.pc = "sendErrorReply"
    /\ tasks' = finish(t)
    /\ onboardingSessions' = [onboardingSessions EXCEPT ![t.user] = NoSession]
    /\ sessionObjs' = collect(sessionObjs, onboardingSessions', tasks')
    /\ last' = Step(t.pc, t.user, NoSession, IF ok THEN "ok" ELSE "fail")
    /\ UNCHANGED <<process, isReady, invites, guildInvites, nJoined, rosterFile, sheet,
                   memberRoles, overwrites>>

\* the error reply of messageCreate's catch settled (.catch(() => {}))
errorReplySent(t, ok) ==
    /\ t \in Suspended
    /\ t.h = "messageCreate"
    /\ t.pc = "sendErrorReply"
    /\ tasks' = finish(t)
    /\ last' = Step(t.pc, t.user, NoSession, IF ok THEN "ok" ELSE "fail")
    /\ UNCHANGED <<process, isReady, invites, onboardingSessions, sessionObjs, guildInvites,
                   nJoined, rosterFile, sheet, memberRoles, overwrites>>

(***************************************************************************)
(* Finalize (onboarding.js finalizeOnboarding)                             *)
(***************************************************************************)
did(t, labels) == [t EXCEPT !.fx = @ \cup labels]

\* the catch block: send the failure message, keep the session
toCatch(t) ==
    [t EXCEPT !.pc = "sendFailure", !.msg = "FAILURE", !.row = NoRow,
              !.fx = @ \cup {"failure"}]

\* sheetData
sheetData(session) ==
    [name |-> session.data.name, email |-> session.data.email,
     phone |-> session.data.phone, discordUsername |-> session.username,
     channel |-> session.channelName]

\* a variant of values with the e-mail in front of the name
values_emailFirst(data) ==
    <<"timestamp", data.email, data.name, data.phone, data.discordUsername, data.channel>>

\* the row appendToSheet sends (sheets.js); the timestamp is not modelled
values(data) ==
    <<"timestamp", data.name, data.email, data.phone, data.discordUsername, data.channel>>

\* the confirmation DM: with the link button iff session.channelId is set
toConfirmation(t) ==
    [t EXCEPT !.pc = "sendConfirmation",
              !.msg = IF sessionObjs[t.sid].channelId # NoId
                      THEN "CONFIRMATION_WITH_LINK" ELSE "CONFIRMATION"]

\* "Grant access to the original channel", up to its await
toChannelAccess(t, channelFound) ==
    IF sessionObjs[t.sid].channelId = NoId THEN toConfirmation(t)
    ELSE IF channelFound THEN [t EXCEPT !.pc = "createOverwrite"]
    ELSE toConfirmation(did(t, {"channelNotFound"}))

\* a variant of deleteSession that forgets the delete
deleteSession_keeps(session) == onboardingSessions

\* sessions.delete(session.userId)
deleteSession(session) == [onboardingSessions EXCEPT ![session.userId] = NoSession]

\* a variant of afterVerification without "if (!isVerified) { ...; return; }"
afterVerification_noReturn(t, session, isVerified) ==
    [did(t, {"processing"}) EXCEPT
        !.pc = "appendToSheet", !.msg = "", !.row = sheetData(session),
        !.verified = IF isVerified THEN "yes" ELSE "no"]

\* the run after verifyPaidLearner returned: the rejection send, or the append call
afterVerification(t, session, isVerified) ==
    IF ~isVerified
    THEN [did(t, {"processing"}) EXCEPT
             !.pc = "sendRejection", !.msg = "REJECTION", !.verified = "no"]
    ELSE [did(t, {"processing"}) EXCEPT
             !.pc = "appendToSheet", !.msg = "", !.row = sheetData(session),
             !.verified = "yes"]

\* a variant of processingSent that returns after the notice
processingSent_stops(t, ok) ==
    /\ t \in Suspended
    /\ t.pc = "sendProcessing"
    /\ tasks' = finish(t)
    /\ last' = Step(t.pc, t.user, t.sid, IF ok THEN "ok" ELSE "fail")
    /\ UNCHANGED <<process, isReady, invites, onboardingSessions, sessionObjs, guildInvites,
                   nJoined, rosterFile, sheet, memberRoles, overwrites>>

\* after the 'processing' send: verify, then the rejection send or the append call
processingSent(t, ok) ==
    /\ t \in Suspended
    /\ t.pc = "sendProcessing"
    /\ LET session == sessionObjs[t.sid]
           isVerified == verifyPaidLearner(rosterFile, session.data.email)
       IN  IF ~ok
           THEN /\ tasks' = move(t, toCatch(t))
                /\ last' = Step(t.pc, t.user, t.sid, "fail")
           ELSE /\ tasks' = move(t, afterVerification(t, session, isVerified))
                /\ last' = Step(t.pc, t.user, t.sid,
                                IF isVerified THEN "verified" ELSE "not_verified")
    /\ UNCHANGED <<process, isReady, invites, onboardingSessions, sessionObjs, guildInvites,
                   nJoined, rosterFile, sheet, memberRoles, overwrites>>

\* after the rejection send: delete the session and return
rejectionSent(t, ok) ==
    /\ t \in Suspended
    /\ t.pc = "sendRejection"
    /\ IF ok
       THEN /\ tasks' = finish(t)
            /\ onboardingSessions' = deleteSession(sessionObjs[t.sid])
            /\ sessionObjs' = collect(sessionObjs, onboardingSessions', tasks')
       ELSE /\ tasks' = move(t, toCatch(t))
            /\ UNCHANGED <<onboardingSessions, sessionObjs>>
    /\ last' = Step(t.pc, t.user, t.sid, IF ok THEN "ok" ELSE "fail")
    /\ UNCHANGED <<process, isReady, invites, guildInvites, nJoined, rosterFile,
                   sheet, memberRoles, overwrites>>

\* a variant of appendToSheet (sheets.js) that logs a failure and returns false
\* instead of rethrowing it
appendToSheet_swallows(t, ok, guildFound) ==
    /\ t \in Suspended
    /\ t.pc = "appendToSheet"
    /\ sheet' = IF ok THEN Append(sheet, values(t.row)) ELSE sheet
    /\ tasks' = move(t, IF guildFound
                        THEN [did(t, IF ok THEN {"append"} ELSE {}) EXCEPT
                                 !.pc = "fetchMember", !.row = NoRow]
                        ELSE toCatch(t))
    /\ last' = Step(t.pc, t.user, t.sid, IF ok THEN "ok" ELSE "fail")
    /\ UNCHANGED <<process, isReady, invites, onboardingSessions, sessionObjs, guildInvites,
                   nJoined, rosterFile, memberRoles, overwrites>>

\* after appendToSheet: it rethrows a failure; then the guild lookup and the
\* member fetch call
appendToSheet(t, ok, guildFound) ==
    /\ t \in Suspended
    /\ t.pc = "appendToSheet"
    /\ IF ok
       THEN /\ sheet' = Append(sheet, values(t.row))
            /\ IF guildFound
               THEN /\ tasks' = move(t, [did(t, {"append"}) EXCEPT
                                            !.pc = "fetchMember", !.row = NoRow])
                    /\ last' = Step(t.pc, t.user, t.sid, "ok")
               ELSE /\ tasks' = move(t, toCatch(did(t, {"append"})))
                    /\ last' = Step(t.pc, t.user, t.sid, "guild_not_found")
       ELSE /\ sheet' = sheet
            /\ tasks' = move(t, toCatch(t))
            /\ last' = Step(t.pc, t.user, t.sid, "fail")
    /\ UNCHANGED <<process, isReady, invites, onboardingSessions, sessionObjs, guildInvites,
                   nJoined, rosterFile, memberRoles, overwrites>>

\* a variant of memberFetched that catches a failed fetch and goes on
memberFetched_lenient(t, ok, roleFound, channelFound) ==
    /\ t \in Suspended
    /\ t.pc = "fetchMember"
    /\ tasks' = move(t, IF roleFound THEN [t EXCEPT !.pc = "addRole"]
                        ELSE toChannelAccess(t, channelFound))
    /\ last' = Step(t.pc, t.user, t.sid, IF ok THEN "ok" ELSE "fail")
    /\ UNCHANGED <<process, isReady, invites, onboardingSessions, sessionObjs, guildInvites,
                   nJoined, rosterFile, sheet, memberRoles, overwrites>>

\* after guild.members.fetch: the role lookup and the add-role call, or on to
\* the channel access
memberFetched(t, ok, roleFound, channelFound) ==
    /\ t \in Suspended
    /\ t.pc = "fetchMember"
    /\ IF ~ok
       THEN /\ tasks' = move(t, toCatch(t))
            /\ last' = Step(t.pc, t.user, t.sid, "fail")
       ELSE IF roleFound
       THEN /\ tasks' = move(t, [t EXCEPT !.pc = "addRole"])
            /\ last' = Step(t.pc, t.user, t.sid, "ok")
       ELSE /\ tasks' = move(t, toChannelAccess(t, channelFound))
            /\ last' = Step(t.pc, t.user, t.sid, "role_not_found")
    /\ UNCHANGED <<process, isReady, invites, onboardingSessions, sessionObjs, guildInvites,
                   nJoined, rosterFile, sheet, memberRoles, overwrites>>

\* after member.roles.add: a rejection reaches the outer catch
roleAdded(t, ok, channelFound) ==
    /\ t \in Suspended
    /\ t.pc = "addRole"
    /\ IF ok
       THEN /\ memberRoles' = memberRoles \cup {sessionObjs[t.sid].userId}
            /\ tasks' = move(t, toChannelAccess(did(t, {"role"}), channelFound))
       ELSE /\ tasks' = move(t, toCatch(t))
            /\ UNCHANGED memberRoles
    /\ last' = Step(t.pc, t.user, t.sid, IF ok THEN "ok" ELSE "fail")
    /\ UNCHANGED <<process, isReady, invites, onboardingSessions, sessionObjs, guildInvites,
                   nJoined, rosterFile, sheet, overwrites>>

\* a variant of overwriteCreated without the inner try: a rejection reaches the
\* outer catch
overwriteCreated_fatal(t, ok) ==
    /\ t \in Suspended
    /\ t.pc = "createOverwrite"
    /\ overwrites' = IF ok THEN overwrites \cup
                                  {<<sessionObjs[t.sid].channelId, sessionObjs[t.sid].userId>>}
                     ELSE overwrites
    /\ tasks' = move(t, IF ok THEN [did(t, {"overwrite"}) EXCEPT
                                      !.pc = "sendChannelWelcome", !.msg = "CHANNEL_WELCOME"]
                        ELSE toCatch(did(t, {"overwriteFailed"})))
    /\ last' = Step(t.pc, t.user, t.sid, IF ok THEN "ok" ELSE "fail")
    /\ UNCHANGED <<process, isReady, invites, onboardingSessions, sessionObjs, guildInvites,
                   nJoined, rosterFile, sheet, memberRoles>>

\* a variant of overwriteCreated that posts the public welcome whether or not
\* the overwrite was created
overwriteCreated_welcomesAnyway(t, ok) ==
    /\ t \in Suspended
    /\ t.pc = "createOverwrite"
    /\ overwrites' = IF ok THEN overwrites \cup
                                  {<<sessionObjs[t.sid].channelId, sessionObjs[t.sid].userId>>}
                     ELSE overwrites
    /\ tasks' = move(t, [did(t, IF ok THEN {"overwrite"} ELSE {"overwriteFailed"}) EXCEPT
                            !.pc = "sendChannelWelcome", !.msg = "CHANNEL_WELCOME"])
    /\ last' = Step(t.pc, t.user, t.sid, IF ok THEN "ok" ELSE "fail")
    /\ UNCHANGED <<process, isReady, invites, onboardingSessions, sessionObjs, guildInvites,
                   nJoined, rosterFile, sheet, memberRoles>>

\* after channel.permissionOverwrites.create: a rejection is caught by the inner
\* try; on success the public welcome is sent
overwriteCreated(t, ok) ==
    /\ t \in Suspended
    /\ t.pc = "createOverwrite"
    /\ IF ok
       THEN /\ overwrites' = overwrites \cup
                   {<<sessionObjs[t.sid].channelId, sessionObjs[t.sid].userId>>}
            /\ tasks' = move(t, [did(t, {"overwrite"}) EXCEPT
                                    !.pc = "sendChannelWelcome", !.msg = "CHANNEL_WELCOME"])
       ELSE /\ tasks' = move(t, toConfirmation(did(t, {"overwriteFailed"})))
            /\ UNCHANGED overwrites
    /\ last' = Step(t.pc, t.user, t.sid, IF ok THEN "ok" ELSE "fail")
    /\ UNCHANGED <<process, isReady, invites, onboardingSessions, sessionObjs, guildInvites,
                   nJoined, rosterFile, sheet, memberRoles>>

\* after channel.send(welcome): a rejection is swallowed
channelWelcomeSent(t, ok) ==
    /\ t \in Suspended
    /\ t.pc = "sendChannelWelcome"
    /\ tasks' = move(t, toConfirmation(did(t, IF ok THEN {"channelWelcome"}
                                                       ELSE {"channelWelcomeFailed"})))
    /\ last' = Step(t.pc, t.user, t.sid, IF ok THEN "ok" ELSE "fail")
    /\ UNCHANGED <<process, isReady, invites, onboardingSessions, sessionObjs, guildInvites,
                   nJoined, rosterFile, sheet, memberRoles, overwrites>>

\* after the confirmation send: delete the session
confirmationSent(t, ok) ==
    /\ t \in Suspended
    /\ t.pc = "sendConfirmation"
    /\ IF ok
       THEN /\ tasks' = finish(t)
            /\ onboardingSessions' = deleteSession(sessionObjs[t.sid])
            /\ sessionObjs' = collect(sessionObjs, onboardingSessions', tasks')
       ELSE /\ tasks' = move(t, toCatch(t))
            /\ UNCHANGED <<onboardingSessions, sessionObjs>>
    /\ last' = Step(t.pc, t.user, t.sid, IF ok THEN "ok" ELSE "fail")
    /\ UNCHANGED <<process, isReady, invites, guildInvites, nJoined, rosterFile,
                   sheet, memberRoles, overwrites>>

\* a variant of failureSent whose catch block deletes the session
failureSent_deletes(t, ok) ==
    /\ t \in Suspended
    /\ t.pc = "sendFailure"
    /\ tasks' = finish(t)
    /\ onboardingSessions' = [onboardingSessions EXCEPT ![t.user] = NoSession]
    /\ sessionObjs' = collect(sessionObjs, onboardingSessions', tasks')
    /\ last' = Step(t.pc, t.user, t.sid, IF ok THEN "ok" ELSE "fail")
    /\ UNCHANGED <<process, isReady, invites, guildInvites,
                   nJoined, rosterFile, sheet, memberRoles, overwrites>>

\* after the failure message of the catch block (.catch(() => {})): finalize
\* returns, the session is kept
failureSent(t, ok) ==
    /\ t \in Suspended
    /\ t.pc = "sendFailure"
    /\ tasks' = finish(t)
    /\ sessionObjs' = collect(sessionObjs, onboardingSessions, tasks')
    /\ last' = Step(t.pc, t.user, t.sid, IF ok THEN "ok" ELSE "fail")
    /\ UNCHANGED <<process, isReady, invites, onboardingSessions, guildInvites,
                   nJoined, rosterFile, sheet, memberRoles, overwrites>>

(***************************************************************************)
(* Specification: joins, the start button, DMs and finalize, with the      *)
(* guild's invites cached at ready                                         *)
(***************************************************************************)
Next ==
    \/ ready
    \/ \E u \in Users, g \in Guilds, via \in 0..Cardinality(Codes) : guildMemberAdd(u, g, via)
    \/ \E u \in Users, i \in Interactions : interactionCreate(u, i[1], i[2])
    \/ \E u \in Users, m \in Messages : messageCreate(u, m[1], m[2])
    \/ \E t \in Suspended, ok \in BOOLEAN : cacheInvites(t, ok)
    \/ \E t \in Suspended, ok \in BOOLEAN : detectUsedInvite(t, ok)
    \/ \E t \in Suspended, ok \in BOOLEAN : handleOnboarding(t, ok)
    \/ \E t \in Suspended, ok \in BOOLEAN : sendWelcome(t, ok)
    \/ \E t \in Suspended, ok \in BOOLEAN : interactionResume(t, ok)
    \/ \E t \in Suspended, ok \in BOOLEAN : handleResponseSent(t, ok)
    \/ \E t \in Suspended, ok \in BOOLEAN : errorReplySent(t, ok)
    \/ \E t \in Suspended, ok \in BOOLEAN : processingSent(t, ok)
    \/ \E t \in Suspended, ok \in BOOLEAN : rejectionSent(t, ok)
    \/ \E t \in Suspended, ok \in BOOLEAN, guildFound \in BOOLEAN :
          appendToSheet(t, ok, guildFound)
    \/ \E t \in Suspended, ok \in BOOLEAN, roleFound \in BOOLEAN, channelFound \in BOOLEAN :
          memberFetched(t, ok, roleFound, channelFound)
    \/ \E t \in Suspended, ok \in BOOLEAN, channelFound \in BOOLEAN :
          roleAdded(t, ok, channelFound)
    \/ \E t \in Suspended, ok \in BOOLEAN : overwriteCreated(t, ok)
    \/ \E t \in Suspended, ok \in BOOLEAN : channelWelcomeSent(t, ok)
    \/ \E t \in Suspended, ok \in BOOLEAN : confirmationSent(t, ok)
    \/ \E t \in Suspended, ok \in BOOLEAN : failureSent(t, ok)

Spec == Init /\ [][Next]_vars

(***************************************************************************)
(* The process from its start (index.js): the required environment is      *)
(* checked while the module loads, then client.login is awaited; the        *)
(* handlers run once it has resolved.                                       *)
(***************************************************************************)
requiredEnvVars == {"DISCORD_TOKEN", "SPREADSHEET_ID", "GOOGLE_APPLICATION_CREDENTIALS"}

ProcessInit ==
    /\ process = "loading"
    /\ isReady = FALSE
    /\ invites = [g \in Guilds |-> NoCache]
    /\ onboardingSessions = [u \in Users |-> NoSession]
    /\ sessionObjs = [i \in Slots |-> Free]
    /\ tasks = EmptyBag
    /\ guildInvites = [g \in Guilds |-> <<[code |-> "A", uses |-> 0, channel |-> ChannelOfCode("A")]>>]
    /\ nJoined = 0
    /\ rosterFile = PaidLearners
    /\ sheet = <<>>
    /\ memberRoles = {}
    /\ overwrites = {}
    /\ last = Step("init", NoUser, NoSession, "")

\* the module body up to client.login, with the environment env: process.exit(1)
\* at the first required key that is missing
loadModule(env) ==
    /\ process = "loading"
    /\ process' = IF requiredEnvVars \subseteq env THEN "login" ELSE "exited"
    /\ last' = Step("loadModule", NoUser, NoSession,
                    IF requiredEnvVars \subseteq env THEN "ok" ELSE "missing")
    /\ UNCHANGED <<isReady, invites, onboardingSessions, sessionObjs, tasks, guildInvites,
                   nJoined, rosterFile, sheet, memberRoles, overwrites>>

\* client.login(...) settled: .catch logs and calls process.exit(1)
login(ok) ==
    /\ process = "login"
    /\ process' = IF ok THEN "running" ELSE "exited"
    /\ last' = Step("login", NoUser, NoSession, IF ok THEN "ok" ELSE "fail")
    /\ UNCHANGED <<isReady, invites, onboardingSessions, sessionObjs, tasks, guildInvites,
                   nJoined, rosterFile, sheet, memberRoles, overwrites>>

ProcessNext ==
    \/ \E env \in SUBSET requiredEnvVars : loadModule(env)
    \/ \E ok \in BOOLEAN : login(ok)
    \/ Next

ProcessSpec == ProcessInit /\ [][ProcessNext]_vars

(***************************************************************************)
(* Specifications of the invite tracker, for two guilds: the bot is in g1  *)
(* at ready and is invited to g2 later.  The platform starts with any of   *)
(* a few invite lists.  TrackerSpec has the cache maintenance (ready,      *)
(* guildCreate, inviteCreate, inviteDelete); JoinSpec has the members      *)
(* joining g1, up to the welcome message.                                  *)
(***************************************************************************)
TrackerGuilds == {"g1", "g2"}
\* invite codes are unique across guilds
CodesOf(g) == IF g = "g1" THEN Codes ELSE {"C"}
Invite(c, n) == [code |-> c, uses |-> n, channel |-> ChannelOfCode(c)]
\* the invites of the guilds when the bot starts
Platform(p1, p2) == [g \in TrackerGuilds |-> IF g = "g1" THEN p1 ELSE p2]
TrackerPlatforms ==
    {Platform(p1, p2) :
        p1 \in {<<Invite("A", 5), Invite("B", 2)>>, <<Invite("B", 2), Invite("A", 5)>>},
        p2 \in {<<>>, <<Invite("C", 1)>>}}

TrackerInit ==
    /\ process = "running"
    /\ isReady = FALSE
    /\ invites = [g \in TrackerGuilds |-> NoCache]
    /\ onboardingSessions = [u \in Users |-> NoSession]
    /\ sessionObjs = [i \in Slots |-> Free]
    /\ tasks = EmptyBag
    /\ guildInvites \in TrackerPlatforms
    /\ nJoined = 0
    /\ rosterFile = PaidLearners
    /\ sheet = <<>>
    /\ memberRoles = {}
    /\ overwrites = {}
    /\ last = Step("init", NoUser, NoSession, "")

TrackerNext ==
    \/ ready
    \/ \E g \in TrackerGuilds \ Guilds : guildCreate(g)
    \/ \E g \in TrackerGuilds : \E c \in CodesOf(g) : inviteCreate(g, c)
    \/ \E g \in TrackerGuilds, i \in 1..Cardinality(Codes) : inviteDelete(g, i)
    \/ \E t \in Suspended, ok \in BOOLEAN : cacheInvites(t, ok)

TrackerSpec == TrackerInit /\ [][TrackerNext]_vars

JoinNext ==
    \/ ready
    \/ \E u \in Users, g \in Guilds, via \in 0..Cardinality(Codes) : guildMemberAdd(u, g, via)
    \/ \E t \in Suspended, ok \in BOOLEAN : cacheInvites(t, ok)
    \/ \E t \in Suspended, ok \in BOOLEAN : detectUsedInvite(t, ok)
    \/ \E t \in Suspended, ok \in BOOLEAN : handleOnboarding(t, ok)
    \/ \E t \in Suspended, ok \in BOOLEAN : sendWelcome(t, ok)

JoinSpec == TrackerInit /\ [][JoinNext]_vars

(***************************************************************************)
(* The flow when every external call succeeds and the role exists: the     *)
(* member presses the start button and answers each question with a valid  *)
(* text (the e-mail one of the allow-list), possibly among other messages. *)
(* The event loop resumes a handler whose call has settled.                *)
(***************************************************************************)
LiveTexts == Texts \ {TxtEmailOther}
LiveMessages == {<<text, "dm">> : text \in LiveTexts} \cup {<<TxtName, "guild">>, <<TxtName, "bot">>}

LiveNext ==
    \/ ready
    \/ \E u \in Users, g \in Guilds, via \in 0..Cardinality(Codes) : guildMemberAdd(u, g, via)
    \/ \E u \in Users, i \in Interactions : interactionCreate(u, i[1], i[2])
    \/ \E u \in Users, m \in LiveMessages : messageCreate(u, m[1], m[2])
    \/ \E t \in Suspended : cacheInvites(t, TRUE)
    \/ \E t \in Suspended : detectUsedInvite(t, TRUE)
    \/ \E t \in Suspended : handleOnboarding(t, TRUE)
    \/ \E t \in Suspended : sendWelcome(t, TRUE)
    \/ \E t \in Suspended : interactionResume(t, TRUE)
    \/ \E t \in Suspended : handleResponseSent(t, TRUE)
    \/ \E t \in Suspended : errorReplySent(t, TRUE)
    \/ \E t \in Suspended : processingSent(t, TRUE)
    \/ \E t \in Suspended : appendToSheet(t, TRUE, TRUE)
    \/ \E t \in Suspended, channelFound \in BOOLEAN : memberFetched(t, TRUE, TRUE, channelFound)
    \/ \E t \in Suspended, channelFound \in BOOLEAN : roleAdded(t, TRUE, channelFound)
    \/ \E t \in Suspended : overwriteCreated(t, TRUE)
    \/ \E t \in Suspended : channelWelcomeSent(t, TRUE)
    \/ \E t \in Suspended : confirmationSent(t, TRUE)

\* the event loop resumes a handler of the join or of finalize
ResumesRun ==
    \E t \in Suspended :
        \/ detectUsedInvite(t, TRUE) \/ handleOnboarding(t, TRUE) \/ sendWelcome(t, TRUE)
        \/ processingSent(t, TRUE) \/ appendToSheet(t, TRUE, TRUE)
        \/ \E channelFound \in BOOLEAN : memberFetched(t, TRUE, TRUE, channelFound)
        \/ \E channelFound \in BOOLEAN : roleAdded(t, TRUE, channelFound)
        \/ overwriteCreated(t, TRUE) \/ channelWelcomeSent(t, TRUE) \/ confirmationSent(t, TRUE)

\* the event loop resumes another handler
ResumesOther ==
    \E t \in Suspended :
        \/ cacheInvites(t, TRUE) \/ interactionResume(t, TRUE)
        \/ handleResponseSent(t, TRUE) \/ errorReplySent(t, TRUE)

LiveFairness ==
    /\ WF_vars(ready)
    /\ WF_vars(ResumesRun)
    /\ WF_vars(ResumesOther)

LiveSpec == Init /\ [][LiveNext]_vars /\ LiveFairness

(***************************************************************************)
(* The same flow in a guild with two invites, A to a course channel and B  *)
(* to no channel, for the record that finalize appends.                    *)
(***************************************************************************)
RecordInit ==
    /\ process = "running"
    /\ isReady = FALSE
    /\ invites = [g \in Guilds |-> NoCache]
    /\ onboardingSessions = [u \in Users |-> NoSession]
    /\ sessionObjs = [i \in Slots |-> Free]
    /\ tasks = EmptyBag
    /\ guildInvites = [g \in Guilds |-> <<Invite("A", 0), Invite("B", 0)>>]
    /\ nJoined = 0
    /\ rosterFile = PaidLearners
    /\ sheet = <<>>
    /\ memberRoles = {}
    /\ overwrites = {}
    /\ last = Step("init", NoUser, NoSession, "")

RecordSpec == RecordInit /\ [][LiveNext]_vars

(***************************************************************************)
(* The flow together with the invite events of the guild (invite B is      *)
(* created and deleted while members join and answer).  The calls whose    *)
(* outcome decides about the registry settle either way; the others        *)
(* succeed.                                                                *)
(***************************************************************************)
RegistryNext ==
    \/ ready
    \/ \E u \in Users, g \in Guilds, via \in 0..Cardinality(Codes) : guildMemberAdd(u, g, via)
    \/ \E g \in Guilds : inviteCreate(g, "B")
    \/ \E g \in Guilds : inviteDelete(g, 2)
    \/ \E u \in Users, i \in Interactions : interactionCreate(u, i[1], i[2])
    \/ \E u \in Users, m \in Messages : messageCreate(u, m[1], m[2])
    \/ \E t \in Suspended : cacheInvites(t, TRUE)
    \/ \E t \in Suspended : detectUsedInvite(t, TRUE)
    \/ \E t \in Suspended, ok \in BOOLEAN : handleOnboarding(t, ok)
    \/ \E t \in Suspended, ok \in BOOLEAN : sendWelcome(t, ok)
    \/ \E t \in Suspended : interactionResume(t, TRUE)
    \/ \E t \in Suspended, ok \in BOOLEAN : handleResponseSent(t, ok)
    \/ \E t \in Suspended : errorReplySent(t, TRUE)
    \/ \E t \in Suspended : processingSent(t, TRUE)
    \/ \E t \in Suspended, ok \in BOOLEAN : rejectionSent(t, ok)
    \/ \E t \in Suspended, ok \in BOOLEAN : appendToSheet(t, ok, TRUE)
    \/ \E t \in Suspended, channelFound \in BOOLEAN : memberFetched(t, TRUE, TRUE, channelFound)
    \/ \E t \in Suspended, channelFound \in BOOLEAN : roleAdded(t, TRUE, channelFound)
    \/ \E t \in Suspended : overwriteCreated(t, TRUE)
    \/ \E t \in Suspended : channelWelcomeSent(t, TRUE)
    \/ \E t \in Suspended, ok \in BOOLEAN : confirmationSent(t, ok)
    \/ \E t \in Suspended, ok \in BOOLEAN : failureSent(t, ok)

RegistrySpec == Init /\ [][RegistryNext]_vars

(***************************************************************************)
(* The validators on their own: a text is drawn, then sanitizeInput and     *)
(* isValidPhone are applied to it.  The text and the result are kept in     *)
(* last; the rest of the state stays as constructed.                        *)
(***************************************************************************)
\* the longest run of digits drawn for a short text
MaxDigits == 17

DigitAt(i) == <<"0", "1", "2", "3", "4", "5", "6", "7", "8", "9">>[(i % 10) + 1]

\* n digits, with the character c in place of the k-th one (k = 0: none)
Body(n, k, c) == [i \in 1..n |-> IF i = k THEN c ELSE DigitAt(i)]

\* n digits, each followed by the character c
Spaced(n, c) == [i \in 1..(2 * n) |-> IF i % 2 = 1 THEN DigitAt(i \div 2) ELSE c]

Margins == {<<>>, <<" ">>, <<"\t", "\n">>}
Marks == {"\n", "\t", "\r", " ", "-", "x"}

ShortTexts ==
    UNION {{pre \o Body(n, k, c) \o post :
                pre \in Margins \cup {<<"+">>}, post \in Margins, k \in {0, 1, 2, n}, c \in Marks} :
           n \in 0..MaxDigits}
    \cup {pre \o Spaced(n, c) : pre \in {<<>>, <<"(">>}, n \in 0..MaxDigits, c \in Marks}

\* texts around the length at which sanitizeInput cuts
LongTexts ==
    UNION {{pre \o Body(n, k, c) \o post :
                pre \in {<<>>, <<" ">>}, post \in {<<>>, <<"\r">>},
                k \in {0, 2, MaxInputLen, n}, c \in {"\n", "\t"}} :
           n \in (MaxInputLen - 1)..(MaxInputLen + 2)}

\* a label of n characters
Label(n) == [i \in 1..n |-> IF i % 2 = 1 THEN "a" ELSE "-"]

TxtUserAtExampleCom == <<"u", "s", "e", "r", "@", "e", "x", "a", "m", "p", "l", "e", ".", "c", "o", "m">>
TxtNotAnEmail == <<"n", "o", "t", "-", "a", "n", "-", "e", "m", "a", "i", "l">>
TxtAAtB == <<"a", "@", "b">>

LocalParts == {<<>>, <<"a">>, <<"u", "s", "e", "r">>, <<"a", ".", "+", "B">>, <<"a", " ", "b">>, <<"(", "a">>}
DomainParts ==
    {<<>>, <<"b">>, <<"B", "9">>, <<"b", ".", "c">>, <<"e", "x", "a", "m", "p", "l", "e", ".", "c", "o", "m">>,
     <<"-", "b">>, <<"b", "-">>, <<"b", "-", "c">>, <<"b", ".", ".", "c">>, <<".", "b">>, <<"b", ".">>,
     <<"b", "_", "c">>, <<"b", ".", "-", "c">>}
    \cup {Label(n) : n \in {MaxLabelMiddle, MaxLabelMiddle + 2, MaxLabelMiddle + 4}}
    \cup {Label(MaxLabelMiddle + 2) \o <<".">> \o Label(n) : n \in {1, MaxLabelMiddle + 2, MaxLabelMiddle + 4}}

EmailTexts ==
    {TxtUserAtExampleCom, TxtNotAnEmail, TxtAAtB}
    \cup {pre \o local \o at \o domain \o post :
            pre \in {<<>>, <<" ">>}, local \in LocalParts, at \in {<<>>, <<"@">>, <<"@", "@">>},
            domain \in DomainParts, post \in {<<>>, <<"\n">>}}

TxtJo == <<"J", "o">>
TxtJ == <<"J">>

NameTexts ==
    {TxtJo, TxtJ, TxtSeven}
    \cup {pre \o core \o post :
            pre \in Margins, post \in Margins,
            core \in {<<>>, <<"J">>, <<"7">>, <<"J", "o">>, <<"7", "7">>, <<"7", "z">>, <<"-", " ", "-">>,
                      <<"J", " ", "7">>, <<"J", "\t", "o">>, <<"7", "\n", "7">>, <<"Z", "a", "Q">>}}

ValidatorTexts == ShortTexts \cup LongTexts \cup EmailTexts \cup NameTexts

ValidatorInit ==
    /\ process = "running"
    /\ isReady = FALSE
    /\ invites = [g \in Guilds |-> NoCache]
    /\ onboardingSessions = [u \in Users |-> NoSession]
    /\ sessionObjs = [i \in Slots |-> Free]
    /\ tasks = EmptyBag
    /\ guildInvites = [g \in Guilds |-> <<>>]
    /\ nJoined = 0
    /\ rosterFile = PaidLearners
    /\ sheet = <<>>
    /\ memberRoles = {}
    /\ overwrites = {}
    /\ \E s \in ValidatorTexts : last = Step("text", NoUser, NoSession, s)

Applied(input, output) == [input |-> input, output |-> output]

applySanitizeInput ==
    /\ last.op = "text"
    /\ last' = Step("sanitizeInput", NoUser, NoSession,
                    Applied(last.res, sanitizeInput(last.res)))
    /\ UNCHANGED <<process, isReady, invites, onboardingSessions, sessionObjs, tasks, guildInvites,
                   nJoined, rosterFile, sheet, memberRoles, overwrites>>

applyIsValidPhone ==
    /\ last.op = "text"
    /\ last' = Step("isValidPhone", NoUser, NoSession,
                    Applied(last.res, isValidPhone(last.res)))
    /\ UNCHANGED <<process, isReady, invites, onboardingSessions, sessionObjs, tasks, guildInvites,
                   nJoined, rosterFile, sheet, memberRoles, overwrites>>

applyIsValidEmail ==
    /\ last.op = "text"
    /\ last' = Step("isValidEmail", NoUser, NoSession,
                    Applied(last.res, isValidEmail(last.res)))
    /\ UNCHANGED <<process, isReady, invites, onboardingSessions, sessionObjs, tasks, guildInvites,
                   nJoined, rosterFile, sheet, memberRoles, overwrites>>

applyIsValidName ==
    /\ last.op = "text"
    /\ last' = Step("isValidName", NoUser, NoSession,
                    Applied(last.res, isValidName(last.res)))
    /\ UNCHANGED <<process, isReady, invites, onboardingSessions, sessionObjs, tasks, guildInvites,
                   nJoined, rosterFile, sheet, memberRoles, overwrites>>

ValidatorNext == applySanitizeInput \/ applyIsValidPhone \/ applyIsValidEmail \/ applyIsValidName

ValidatorSpec == ValidatorInit /\ [][ValidatorNext]_vars

(***************************************************************************)
(* The allow-list lookup on its own: paidLearners.json is written by its   *)
(* owner at any time, and each lookup reads the file as it is then.        *)
(***************************************************************************)
\* the longest roster drawn
MaxRoster == 2

RosterEntries ==
    {NullEntry, [email |-> NoEmail],
     [email |-> <<" ", "1", "@", "2", ".", "3">>],
     [email |-> <<"A", "@", "b", ".", "C", " ">>]}

RosterFiles ==
    {[state |-> st, learners |-> <<>>] : st \in {"missing", "unreadable", "malformed"}}
    \cup {[state |-> "ok", learners |-> l] :
            l \in UNION {[1..n -> RosterEntries] : n \in 0..MaxRoster}}

Queries == {TxtEmailPaid, <<"a", "@", "B", ".", "c">>, <<" ", "A", "@", "b", ".", "C">>, TxtEmailOther, <<" ">>}

LookupInit ==
    /\ process = "running"
    /\ isReady = FALSE
    /\ invites = [g \in Guilds |-> NoCache]
    /\ onboardingSessions = [u \in Users |-> NoSession]
    /\ sessionObjs = [i \in Slots |-> Free]
    /\ tasks = EmptyBag
    /\ guildInvites = [g \in Guilds |-> <<>>]
    /\ nJoined = 0
    /\ rosterFile = [state |-> "missing", learners |-> <<>>]
    /\ sheet = <<>>
    /\ memberRoles = {}
    /\ overwrites = {}
    /\ last = Step("init", NoUser, NoSession, "")

\* the owner of the roster writes, removes or damages the file
rosterWritten(file) ==
    /\ rosterFile' = file
    /\ UNCHANGED <<process, isReady, invites, onboardingSessions, sessionObjs, tasks, guildInvites,
                   nJoined, sheet, memberRoles, overwrites, last>>

\* one call of verifyPaidLearner(email); it returns in every case
lookup(email) ==
    /\ last' = Step("verifyPaidLearner", NoUser, NoSession,
                    Applied(email, verifyPaidLearner(rosterFile, email)))
    /\ UNCHANGED <<process, isReady, invites, onboardingSessions, sessionObjs, tasks, guildInvites,
                   nJoined, rosterFile, sheet, memberRoles, overwrites>>

LookupNext ==
    \/ \E file \in RosterFiles : rosterWritten(file)
    \/ \E email \in Queries : lookup(email)

LookupSpec == LookupInit /\ [][LookupNext]_vars

(***************************************************************************)
(* Properties                                                              *)
(***************************************************************************)
\* everything but the history variable
program == <<isReady, invites, onboardingSessions, sessionObjs, tasks, guildInvites,
             nJoined, rosterFile, sheet, memberRoles, overwrites>>

\* the e-mails of the roster, lower-cased and trimmed
RosterEmails ==
    IF rosterFile.state # "ok" THEN {}
    ELSE {trim(toLowerCase(rosterFile.learners[i].email)) :
             i \in {j \in 1..Len(rosterFile.learners) :
                       rosterFile.learners[j].email # NoEmail}}
AllowListed(email) == trim(toLowerCase(email)) \in RosterEmails

\* the finalize runs in flight (only they hold a session object)
Finalizing(tks) == {t \in BagToSet(tks) : t.sid # NoSession}
\* t is the handler that takes this step
Acts(t) ==
    /\ t \in Suspended
    /\ t.pc = last'.op
    /\ t.sid = last'.sid
    /\ t.user = last'.user
\* the same finalize run after this step, when it is still in flight
Continues(t, t2) == t2 \in Finalizing(tasks') /\ t2.sid = t.sid
\* this step ends a finalize run
RunEnds == Cardinality(Finalizing(tasks')) < Cardinality(Finalizing(tasks))
RegistryKept ==
    /\ onboardingSessions' = onboardingSessions
    /\ \A u \in Users : onboardingSessions[u] # NoSession =>
          sessionObjs'[onboardingSessions[u]] = sessionObjs[onboardingSessions[u]]
Grants == {"append", "role", "overwrite", "channelWelcome"}

\* C1: a record is appended, a role granted or a permission overwrite created only
\* by a finalize run whose own allow-list lookup returned 'verified', for a
\* session whose collected e-mail is in the allow-list
C1_EffectsOnlyWhenVerified ==
    [][/\ ( \/ sheet' # sheet
            \/ memberRoles' # memberRoles
            \/ overwrites' # overwrites
            \/ (last'.op \in {"appendToSheet", "addRole", "createOverwrite"}
                   /\ last'.res # "fail") )
          => \E t \in Suspended :
                /\ Acts(t)
                /\ t.pc \in {"appendToSheet", "addRole", "createOverwrite"}
                /\ t.verified = "yes"
                /\ "processing" \in t.fx
                /\ AllowListed(sessionObjs[t.sid].data.email)
       /\ sheet' # sheet =>
             /\ Len(sheet') = Len(sheet) + 1
             /\ AllowListed(sheet'[Len(sheet')][3])
       /\ \A t \in Suspended' :
             t.fx \cap {"append", "role", "overwrite"} # {} => t.verified = "yes"
      ]_vars

\* C1 witness: a verified run has appended its record, been granted the role and
\* just created the overwrite
C1_Witness ==
    /\ last.op = "createOverwrite" /\ last.res = "ok"
    /\ Len(sheet) = 1
    /\ memberRoles = {last.user}
    /\ overwrites = {<<"ch1", last.user>>}

\* C2: a finalize run for a session whose e-mail is not in the allow-list
\* appends no record and grants no role and no channel access; once its
\* 'processing' notice is out the lookup rejects and the fixed rejection message
\* is sent, and once that is delivered the session is removed from the registry
\* and the run returns (a send that fails takes the run to the catch block)
C2_RejectBranch ==
    [][\A t \in Finalizing(tasks) :
          (Acts(t) /\ ~AllowListed(sessionObjs[t.sid].data.email))
             => /\ sheet' = sheet /\ memberRoles' = memberRoles /\ overwrites' = overwrites
                /\ t.fx \cap Grants = {}
                /\ t.pc \in {"sendProcessing", "sendRejection", "sendFailure"}
                /\ (t.pc = "sendProcessing" /\ last'.res # "fail")
                      => \E t2 \in Suspended' :
                            /\ Continues(t, t2)
                            /\ t2.pc = "sendRejection" /\ t2.msg = "REJECTION"
                            /\ t2.verified = "no"
                /\ (t.pc = "sendRejection" /\ last'.res = "ok")
                      => /\ RunEnds
                         /\ onboardingSessions'[t.user] = NoSession
                /\ (t.pc \in {"sendProcessing", "sendRejection"} /\ last'.res = "fail")
                      => /\ RegistryKept
                         /\ \E t2 \in Suspended' :
                               /\ Continues(t, t2)
                               /\ t2.pc = "sendFailure" /\ t2.msg = "FAILURE"
                /\ t.pc = "sendFailure" => RegistryKept /\ RunEnds
      ]_vars

\* C2 witness: the rejection message was delivered and the session is gone
C2_Witness ==
    /\ last.op = "sendRejection" /\ last.res = "ok"
    /\ onboardingSessions[last.user] = NoSession
    /\ sheet = <<>> /\ memberRoles = {} /\ overwrites = {}

\* C3 as stated: every finalize run, also one in which a DM send fails, ends
\* with the session removed
C3_Original ==
    ( \/ last.op = "sendFailure"
      \/ (last.op \in {"sendRejection", "sendConfirmation"} /\ last.res = "ok") )
       => \A u \in Users : onboardingSessions[u] # last.sid

\* C3 amended: a finalize run ends either by a delivered rejection or a delivered
\* confirmation message, and then the session is removed, or in the catch block
\* (after a failed send of the 'processing' notice, the rejection or the
\* confirmation, or another failed step), and then the registry stays as it is
C3_RemovedUnlessFailed ==
    [][/\ RunEnds =>
             \/ last'.op \in {"sendRejection", "sendConfirmation"} /\ last'.res = "ok"
             \/ last'.op = "sendFailure"
       /\ (last'.op \in {"sendRejection", "sendConfirmation"} /\ last'.res = "ok")
             => RunEnds /\ onboardingSessions'[last'.user] = NoSession
       /\ (last'.op \in {"sendProcessing", "sendRejection", "sendConfirmation"}
              /\ last'.res = "fail")
             => /\ RegistryKept
                /\ \E t2 \in Finalizing(tasks') :
                      t2.sid = last'.sid /\ t2.pc = "sendFailure"
       /\ last'.op = "sendFailure" => RunEnds /\ RegistryKept
      ]_vars

\* C3 witness: a run ended in the catch block and its session is still registered
C3_Witness ==
    /\ last.op = "sendFailure"
    /\ onboardingSessions[last.user] = last.sid
    /\ sessionObjs[last.sid].currentStep = Len(QUESTION_ORDER)

\* C4: when the record-append call fails, nothing is appended and no role or
\* overwrite is granted, the session object and the registry are as before (the
\* three answers included), and the run goes to the failure message without
\* having granted, posted or confirmed anything; the failure message ends the
\* run with the registry unchanged
C4_AppendFailureKeepsSession ==
    [][\A t \in Finalizing(tasks) :
          /\ (Acts(t) /\ t.pc = "appendToSheet" /\ last'.res = "fail")
                => /\ sheet' = sheet /\ memberRoles' = memberRoles /\ overwrites' = overwrites
                   /\ onboardingSessions' = onboardingSessions
                   /\ sessionObjs'[t.sid] = sessionObjs[t.sid]
                   /\ \A k \in {"name", "email", "phone"} :
                         sessionObjs'[t.sid].data[k] # Undefined
                   /\ \E t2 \in Suspended' :
                         /\ Continues(t, t2)
                         /\ t2.pc = "sendFailure" /\ t2.msg = "FAILURE"
                         /\ t2.fx \cap Grants = {}
          /\ (Acts(t) /\ t.pc = "sendFailure" /\ "append" \notin t.fx)
                => /\ RunEnds
                   /\ RegistryKept
                   /\ sheet' = sheet /\ memberRoles' = memberRoles /\ overwrites' = overwrites
                   /\ t.fx \cap Grants = {}
      ]_vars

\* C4 witness: the append call has just failed for a registered, completed session
C4_Witness ==
    /\ last.op = "appendToSheet" /\ last.res = "fail"
    /\ onboardingSessions[last.user] = last.sid
    /\ sessionObjs[last.sid].currentStep = Len(QUESTION_ORDER)
    /\ sessionObjs[last.sid].data.email = TxtEmailPaid
    /\ sheet = <<>>

\* C5 as stated: after the append neither a missing role nor a failing add-role
\* call keeps finalize from the channel-access step and the confirmation DM,
\* and no error message is sent
C5_Original ==
    [][\A t \in Finalizing(tasks) :
          (Acts(t) /\ ( \/ t.pc = "addRole"
                        \/ (t.pc = "fetchMember" /\ last'.res = "role_not_found") ))
             => \E t2 \in Suspended' :
                   /\ Continues(t, t2)
                   /\ t2.pc \in {"createOverwrite", "sendConfirmation"}
                   /\ "failure" \notin t2.fx
      ]_vars

\* C6: a failed overwrite, a channel id that resolves to no channel and a failed
\* public welcome post each leave the run on its way to the confirmation DM,
\* with no failure message and the registry as it is; the delivered
\* confirmation removes the session
C6_ChannelAccessNeverAborts ==
    [][\A t \in Finalizing(tasks) :
          /\ (Acts(t) /\ ( \/ (t.pc \in {"createOverwrite", "sendChannelWelcome"}
                                  /\ last'.res = "fail")
                           \/ \E t2 \in Suspended' :
                                 /\ Continues(t, t2)
                                 /\ "channelNotFound" \in t2.fx \ t.fx ))
                => /\ RegistryKept
                   /\ overwrites' = overwrites
                   /\ \E t2 \in Suspended' :
                         /\ Continues(t, t2)
                         /\ t2.pc = "sendConfirmation"
                         /\ t2.msg \in {"CONFIRMATION", "CONFIRMATION_WITH_LINK"}
                         /\ "failure" \notin t2.fx
                         /\ t2.fx \cap {"channelNotFound", "overwriteFailed",
                                         "channelWelcomeFailed"} # {}
          /\ (Acts(t) /\ t.pc = "sendConfirmation" /\ last'.res = "ok")
                => /\ RunEnds
                   /\ onboardingSessions'[t.user] = NoSession
                   /\ "failure" \notin t.fx
      ]_vars

\* C6 witness: the overwrite has just failed and the run is at the confirmation DM
C6_Witness ==
    /\ last.op = "createOverwrite" /\ last.res = "fail"
    /\ \E t \in Suspended :
          /\ t.sid = last.sid
          /\ t.pc = "sendConfirmation"
          /\ "overwriteFailed" \in t.fx

\* C7: when the guild lookup or the member fetch fails after the append, the run
\* goes to the failure message with no role and no overwrite granted, and the
\* registry and the session object stay as they are, through the failure
\* message as well
C7_LookupFailureKeepsSession ==
    [][\A t \in Finalizing(tasks) :
          /\ (Acts(t) /\ ( \/ (t.pc = "appendToSheet" /\ last'.res = "guild_not_found")
                           \/ (t.pc = "fetchMember" /\ last'.res = "fail") ))
                => /\ memberRoles' = memberRoles /\ overwrites' = overwrites
                   /\ onboardingSessions' = onboardingSessions
                   /\ sessionObjs'[t.sid] = sessionObjs[t.sid]
                   /\ \A k \in {"name", "email", "phone"} :
                         sessionObjs'[t.sid].data[k] # Undefined
                   /\ \E t2 \in Suspended' :
                         /\ Continues(t, t2)
                         /\ t2.pc = "sendFailure" /\ t2.msg = "FAILURE"
                         /\ t2.fx \cap Grants = {"append"}
          /\ (Acts(t) /\ t.pc = "sendFailure" /\ t.fx \cap Grants = {"append"})
                => /\ RunEnds
                   /\ RegistryKept
                   /\ memberRoles' = memberRoles /\ overwrites' = overwrites
      ]_vars

\* C7 witness: the record is in the sheet, the member fetch has just failed and
\* the session is still registered
C7_Witness ==
    /\ last.op = "fetchMember" /\ last.res = "fail"
    /\ Len(sheet) = 1
    /\ memberRoles = {} /\ overwrites = {}
    /\ onboardingSessions[last.user] = last.sid

DMs == {m \in Messages : m[2] = "dm"}

\* C8: a DM, whatever its text, from a user whose session is not started changes
\* nothing: no send is started, and the session object (index, answers, started
\* flag) and everything else stay as they are
C8_UnstartedIgnored ==
    [][\A u \in Users, m \in DMs :
          ( /\ messageCreate(u, m[1], m[2])
            /\ onboardingSessions[u] # NoSession
            /\ ~sessionObjs[onboardingSessions[u]].started )
             => /\ program' = program
                /\ ~sessionObjs'[onboardingSessions'[u]].started
      ]_vars

\* C8 witness: a DM has just been ignored for a session that is not started
C8_Witness ==
    /\ last.op = "messageCreate" /\ last.res = "not_started"
    /\ onboardingSessions[last.user] # NoSession
    /\ ~sessionObjs[onboardingSessions[last.user]].started
    /\ sessionObjs[onboardingSessions[last.user]].currentStep = 0
    /\ sessionObjs[onboardingSessions[last.user]].data = NoData

\* C9: a DM from a user with no session in the registry changes nothing: no send
\* is started, no session is created, the registry and the invite cache stay as
\* they are
C9_NoSessionNoOp ==
    [][\A u \in Users, m \in DMs :
          (messageCreate(u, m[1], m[2]) /\ onboardingSessions[u] = NoSession)
             => /\ tasks' = tasks
                /\ onboardingSessions' = onboardingSessions
                /\ sessionObjs' = sessionObjs
                /\ invites' = invites
                /\ program' = program
      ]_vars

\* C9 witness: a DM of a user without a session has just been handled, while a
\* join is in flight
C9_Witness ==
    /\ last.op = "messageCreate" /\ last.res = "no_session"
    /\ onboardingSessions[last.user] = NoSession
    /\ NumTasks > 0

\* the question a started, unfinished session of u is at
currentQuestionOf(u) ==
    QUESTIONS[QUESTION_ORDER[sessionObjs[onboardingSessions[u]].currentStep + 1]]

\* C10: a DM to a started session that fails the validator of the current
\* question starts exactly one send, of that question's error text, and leaves
\* the session object (index, answers) and the registry as they are, however
\* many invalid messages came before
C10_InvalidAnswerKeepsStep ==
    [][\A u \in Users, m \in DMs :
          ( /\ messageCreate(u, m[1], m[2])
            /\ onboardingSessions[u] # NoSession
            /\ sessionObjs[onboardingSessions[u]].started
            /\ sessionObjs[onboardingSessions[u]].currentStep < Len(QUESTION_ORDER)
            /\ ~validator(QUESTION_ORDER[sessionObjs[onboardingSessions[u]].currentStep + 1],
                          sanitizeInput(m[1])) )
             => /\ sessionObjs' = sessionObjs
                /\ onboardingSessions' = onboardingSessions
                /\ \E t \in Suspended' :
                      /\ t.pc = "sendError"
                      /\ t.user = u
                      /\ t.msg = currentQuestionOf(u).errorMessage
                      /\ tasks' = tasks (+) SetToBag({t})
      ]_vars

\* C10 witness: two invalid answers in a row to the e-mail question, both error
\* texts still being sent, the session at the same question with the name stored
C10_Witness ==
    /\ last.op = "messageCreate" /\ last.res = "invalid"
    /\ onboardingSessions[last.user] = last.sid
    /\ sessionObjs[last.sid].currentStep = 1
    /\ sessionObjs[last.sid].data.name # Undefined
    /\ sessionObjs[last.sid].data.email = Undefined
    /\ \E t \in Suspended :
          /\ t.pc = "sendError" /\ t.msg = "E_EMAIL"
          /\ CopiesIn(t, tasks) = 2

\* the order of the questions as the flow is meant to ask them: field, prompt
FieldOrder == <<"name", "email", "phone">>
PromptOrder == <<"Q_NAME", "Q_EMAIL", "Q_PHONE">>

\* C11: a DM to a started session that passes the validator of the current
\* question stores the sanitized text under that question's field, advances the
\* index by exactly one and starts exactly one send: the next prompt while
\* questions remain, the 'processing' notice of finalize after the third; the
\* fields are name, email, phone in this order
C11_ValidAnswerAdvances ==
    [][\A u \in Users, m \in DMs :
          ( /\ messageCreate(u, m[1], m[2])
            /\ onboardingSessions[u] # NoSession
            /\ sessionObjs[onboardingSessions[u]].started
            /\ sessionObjs[onboardingSessions[u]].currentStep < Len(QUESTION_ORDER)
            /\ validator(QUESTION_ORDER[sessionObjs[onboardingSessions[u]].currentStep + 1],
                         sanitizeInput(m[1])) )
             => LET sid == onboardingSessions[u]
                    k == sessionObjs[sid].currentStep
                IN  /\ QUESTIONS[QUESTION_ORDER[k + 1]].key = FieldOrder[k + 1]
                    /\ sessionObjs' =
                          [sessionObjs EXCEPT ![sid].data[FieldOrder[k + 1]] = sanitizeInput(m[1]),
                                              ![sid].currentStep = k + 1]
                    /\ onboardingSessions' = onboardingSessions
                    /\ \E t \in Suspended' :
                          /\ tasks' = tasks (+) SetToBag({t})
                          /\ t.user = u
                          /\ IF k + 1 < 3
                             THEN t.pc = "sendNext" /\ t.msg = PromptOrder[k + 2]
                             ELSE t.pc = "sendProcessing" /\ t.sid = sid
      ]_vars

\* C11 witness: the third answer has just been stored and finalize started; the
\* name is stored sanitized
C11_Witness ==
    /\ last.op = "messageCreate" /\ last.res = "finalize"
    /\ sessionObjs[last.sid].currentStep = 3
    /\ sessionObjs[last.sid].data =
          [name |-> <<"J", " ", "o">>, email |-> TxtEmailPaid, phone |-> TxtPhone]
    /\ \E t \in Suspended : t.pc = "sendProcessing" /\ t.sid = last.sid

\* C12: a finalize run for a session with its three answers and an e-mail in
\* the allow-list, as long as every call it makes succeeds, never sends the
\* rejection or the failure message, appends its record exactly once (the
\* session's name, e-mail, phone, user tag and channel name) and ends with the
\* delivered confirmation and the session removed
C12_VerifiedRunCompletes ==
    [][\A t \in Finalizing(tasks) :
          ( /\ Acts(t)
            /\ AllowListed(sessionObjs[t.sid].data.email)
            /\ "failure" \notin t.fx
            /\ last'.res \notin {"fail", "guild_not_found"} )
             => LET session == sessionObjs[t.sid]
                IN  /\ \A k \in {"name", "email", "phone"} : session.data[k] # Undefined
                    /\ t.pc \notin {"sendRejection", "sendFailure"}
                    /\ IF t.pc = "appendToSheet"
                       THEN /\ "append" \notin t.fx
                            /\ sheet' = Append(sheet, <<"timestamp", session.data.name,
                                                        session.data.email, session.data.phone,
                                                        session.username, session.channelName>>)
                       ELSE sheet' = sheet
                    /\ IF t.pc = "sendConfirmation"
                       THEN /\ RunEnds
                            /\ "append" \in t.fx
                            /\ onboardingSessions'[t.user] = NoSession
                       ELSE \E t2 \in Suspended' :
                               /\ Continues(t, t2)
                               /\ t2.pc \notin {"sendProcessing", "sendRejection", "sendFailure"}
                               /\ "failure" \notin t2.fx
                               /\ t.pc = "appendToSheet" => "append" \in t2.fx
      ]_vars

\* C12 witness: the run of a member who joined through invite A has ended with
\* the confirmation delivered: one record, the role, the overwrite, no session
C12_Witness ==
    /\ last.op = "sendConfirmation" /\ last.res = "ok"
    /\ sheet = << <<"timestamp", <<"J", " ", "o">>, TxtEmailPaid, TxtPhone,
                    "alice#0001", "course-a">> >>
    /\ memberRoles = {"u1"}
    /\ overwrites = {<<"ch1", "u1">>}
    /\ onboardingSessions["u1"] = NoSession

\* the positions of the fetched list whose use-count is above the cached
\* use-count of the same code
Increased(cached, fetched) ==
    {i \in 1..Len(fetched) :
        \E c \in DOMAIN cached : c = fetched[i].code /\ cached[c] < fetched[i].uses}

\* C13: with a cache for the guild and a successful fetch, detectUsedInvite
\* returns the fetched invite at the first position whose use-count is above
\* the cached count of its code (the join handler takes its channel from it),
\* and returns no invite when there is no such position
C13_FirstIncreasedInvite ==
    [][\A t \in Suspended :
          (detectUsedInvite(t, TRUE) /\ invites[t.guild].has)
             => LET hits == Increased(invites[t.guild].uses, t.snap)
                IN  \E t2 \in Suspended' :
                       /\ tasks' = (tasks (-) SetToBag({t})) (+) SetToBag({t2})
                       /\ t2.pc = "createDM"
                       /\ IF hits = {}
                          THEN /\ last'.res = "none"
                               /\ t2.ch = [name |-> "Unknown", id |-> NoId]
                          ELSE \E i \in hits :
                                  /\ \A j \in hits : i <= j
                                  /\ last'.res = t.snap[i].code
                                  /\ t2.ch = IF t.snap[i].channel = NoChannel
                                             THEN [name |-> "Unknown", id |-> NoId]
                                             ELSE t.snap[i].channel
      ]_vars

\* C13 witness: cache {A: 5, B: 2}, fetch A: 5, B: 3 in this order: B was returned
\* (the cache now holds the fetched counts)
C13_Witness ==
    /\ last.op = "detectUsedInvite" /\ last.res = "B"
    /\ nJoined = 1
    /\ guildInvites["g1"] = <<Invite("A", 5), Invite("B", 3)>>
    /\ invites["g1"] = Cache([c \in {"A", "B"} |-> IF c = "A" THEN 5 ELSE 3])

\* C14 as stated: after a detectUsedInvite call whose fetch succeeded, the cache
\* of the guild is the fetched mapping code -> uses, whether or not an invite
\* was detected and whether or not the guild had a cache before
C14_Original ==
    [][\A t \in Suspended :
          detectUsedInvite(t, TRUE)
             => /\ invites'[t.guild].has
                /\ DOMAIN invites'[t.guild].uses = {t.snap[i].code : i \in 1..Len(t.snap)}
                /\ \A i \in 1..Len(t.snap) :
                      invites'[t.guild].uses[t.snap[i].code] = t.snap[i].uses
      ]_vars

\* C15: a failed invite fetch leaves the cache of every guild as it is, in
\* cacheInvites (whose caller goes on) and in detectUsedInvite, which then
\* returns no invite: the join handler goes on to createDM with the channel
\* unknown, and with a DM channel it registers a session for the member
C15_FetchFailureKeepsCache ==
    [][\A t \in Suspended :
          /\ cacheInvites(t, FALSE)
                => /\ invites' = invites
                   /\ tasks' = tasks (-) SetToBag({t})
          /\ detectUsedInvite(t, FALSE)
                => /\ invites' = invites
                   /\ tasks' = (tasks (-) SetToBag({t})) (+)
                                  SetToBag({[t EXCEPT !.pc = "createDM", !.snap = <<>>,
                                                      !.ch = [name |-> "Unknown", id |-> NoId]]})
          /\ (handleOnboarding(t, TRUE) /\ t.ch.id = NoId)
                => /\ onboardingSessions'[t.user] # NoSession
                   /\ sessionObjs'[onboardingSessions'[t.user]].userId = t.user
                   /\ sessionObjs'[onboardingSessions'[t.user]].channelId = NoId
                   /\ sessionObjs'[onboardingSessions'[t.user]].channelName = "Unknown"
      ]_vars

\* C15 witness: the fetch of a join through invite B has just failed; the cache
\* still holds the counts cached at ready and the handler is at createDM
C15_Witness ==
    /\ last.op = "detectUsedInvite" /\ last.res = "fail"
    /\ guildInvites["g1"] = <<Invite("A", 5), Invite("B", 3)>>
    /\ invites["g1"] = Cache([c \in {"A", "B"} |-> IF c = "A" THEN 5 ELSE 2])
    /\ \E t \in Suspended : t.pc = "createDM" /\ t.ch.id = NoId

\* the cache cached holds exactly the codes of the list fetched, each with the
\* use-count fetched
HoldsExactly(cached, fetched) ==
    /\ cached.has
    /\ DOMAIN cached.uses = {fetched[i].code : i \in 1..Len(fetched)}
    /\ \A i \in 1..Len(fetched) : cached.uses[fetched[i].code] = fetched[i].uses

\* C16: a cacheInvites call whose fetch succeeded leaves the cache of its guild
\* holding exactly the fetched codes with the fetched use-counts and the cache
\* of every other guild as it was; a call that finds the cache already holding
\* what it fetched (the second of two calls with the same fetch) changes nothing
C16_RefreshReplaces ==
    [][\A t \in Suspended :
          cacheInvites(t, TRUE)
             => /\ HoldsExactly(invites'[t.guild], t.snap)
                /\ \A g \in DOMAIN invites \ {t.guild} : invites'[g] = invites[g]
                /\ DOMAIN invites' = DOMAIN invites
                /\ HoldsExactly(invites[t.guild], t.snap) => invites' = invites
      ]_vars

\* C16 witness: the bot was added to g2 and invite C was created while the fetch
\* was in flight; the fetch (no invites) has just replaced the cache of g2,
\* dropping C, and g1 keeps its cache
C16_Witness ==
    /\ last.op = "cacheInvites" /\ last.res = "ok"
    /\ guildInvites["g2"] = <<Invite("C", 0)>>
    /\ invites["g2"].has /\ DOMAIN invites["g2"].uses = {}
    /\ invites["g1"].has /\ DOMAIN invites["g1"].uses = {"A", "B"}

\* C17: an invite-create event leaves the cache of its guild with the created
\* code added (or reset) to the use-count of the created invite, and an
\* invite-delete event with the deleted code removed; the other entries of the
\* guild and the caches of the other guilds stay as they are, no fetch is
\* started, and a delete for a guild without a cache changes no cache
C17_InviteEventsTouchOneEntry ==
    [][\A g \in TrackerGuilds :
          /\ \A c \in CodesOf(g) :
                inviteCreate(g, c)
                   => /\ invites'[g].has
                      /\ DOMAIN invites'[g].uses = DOMAIN invites[g].uses \cup {c}
                      /\ invites'[g].uses[c] = guildInvites'[g][Len(guildInvites'[g])].uses
                      /\ guildInvites'[g][Len(guildInvites'[g])].code = c
                      /\ \A x \in DOMAIN invites[g].uses \ {c} :
                            invites'[g].uses[x] = invites[g].uses[x]
                      /\ \A h \in TrackerGuilds \ {g} : invites'[h] = invites[h]
                      /\ tasks' = tasks
          /\ \A i \in 1..Cardinality(Codes) :
                inviteDelete(g, i)
                   => /\ invites'[g].has = invites[g].has
                      /\ DOMAIN invites'[g].uses =
                            DOMAIN invites[g].uses \ {guildInvites[g][i].code}
                      /\ \A x \in DOMAIN invites'[g].uses :
                            invites'[g].uses[x] = invites[g].uses[x]
                      /\ ~invites[g].has => invites' = invites
                      /\ \A h \in TrackerGuilds \ {g} : invites'[h] = invites[h]
                      /\ tasks' = tasks
      ]_vars

\* C17 witness: in g1 invite B was deleted and created again (its entry is back
\* with no uses, beside A's); invite C of g2, which has no cache, has just been
\* deleted
C17_Witness ==
    /\ last.op = "inviteDelete" /\ last.res = "C"
    /\ ~invites["g2"].has
    /\ invites["g1"] = Cache([c \in {"A", "B"} |-> IF c = "A" THEN 5 ELSE 0])

\* C18 as stated: whatever the order in which overlapping fetches of a guild
\* resume, a cached use-count is never replaced by a lower, older one (invites
\* are neither created nor deleted here, so the counts on the platform only
\* grow and a lower count is an older one)
C18_Original ==
    [][\A g \in DOMAIN invites :
          invites[g].has
             => \A c \in DOMAIN invites[g].uses \cap DOMAIN invites'[g].uses :
                   invites'[g].uses[c] >= invites[g].uses[c]
      ]_vars

\* C19: for every text s, sanitizeInput(s) has no carriage return, line feed or
\* tab and at most 500 characters, and it is s without its leading and
\* trailing white space, each carriage return, line feed and tab in between
\* replaced by a space, cut after 500 characters
C19_SanitizeShape ==
    last.op = "sanitizeInput" =>
        LET s == last.res.input
            o == last.res.output
            inner == {i \in 1..Len(s) : s[i] \notin WhiteSpace}
        IN  /\ \A i \in 1..Len(o) : o[i] \notin LineBreakOrTab
            /\ Len(o) <= 500
            /\ inner = {} => o = <<>>
            /\ inner # {} =>
                  LET lo == CHOOSE i \in 1..Len(s) :
                                s[i] \notin WhiteSpace /\ \A j \in 1..(i - 1) : s[j] \in WhiteSpace
                      hi == CHOOSE i \in 1..Len(s) :
                                s[i] \notin WhiteSpace /\ \A j \in (i + 1)..Len(s) : s[j] \in WhiteSpace
                  IN  /\ Len(o) = IF hi - lo + 1 > 500 THEN 500 ELSE hi - lo + 1
                      /\ \A i \in 1..Len(o) :
                            o[i] = IF s[lo + i - 1] \in {"\r", "\n", "\t"} THEN " " ELSE s[lo + i - 1]

\* sanitizeInput has cut a text that is longer than 500 characters after
\* trimming, had white space around it and a line feed or tab inside
C19_Witness ==
    /\ last.op = "sanitizeInput"
    /\ Len(last.res.input) > 501
    /\ last.res.input[1] = " "
    /\ Len(last.res.output) = 500
    /\ \E i \in 2..500 : last.res.input[i] \in {"\n", "\t"} /\ last.res.output[i - 1] = " "

\* the number of ASCII digits in the text s
DigitCount(s) == Cardinality({i \in 1..Len(s) : s[i] \in Digit})

\* C20: isValidPhone(s) is true exactly when s has between 10 and 15 ASCII
\* digits, whatever the other characters of s are and wherever they are
C20_PhoneIffDigitCount ==
    last.op = "isValidPhone" =>
        (last.res.output <=> (DigitCount(last.res.input) >= 10 /\ DigitCount(last.res.input) <= 15))

\* isValidPhone has accepted a text of more than 15 characters whose digits are
\* separated by other characters
C20_Witness ==
    /\ last.op = "isValidPhone"
    /\ last.res.output = TRUE
    /\ Len(last.res.input) > 15
    /\ \E i \in 1..(Len(last.res.input) - 1) :
          last.res.input[i] \in Digit /\ last.res.input[i + 1] \notin Digit

\* C21 as stated: isValidEmail accepts user@example.com, rejects
\* not-an-email, and rejects a@b and every other address whose domain part is
\* a single label
C21_Original ==
    last.op = "isValidEmail" =>
        /\ last.res.input = TxtUserAtExampleCom => last.res.output
        /\ last.res.input = TxtNotAnEmail => ~last.res.output
        /\ last.res.input = TxtAAtB => ~last.res.output
        /\ (\A i \in 1..Len(last.res.input) : last.res.input[i] # ".") => ~last.res.output

\* the text s is a non-empty local part of allowed characters, an @ and one
\* label: letters, digits and hyphens, at most 63 of them, the first and the
\* last no hyphen
SingleLabelAddress(s) ==
    \E k \in 2..(Len(s) - 1) :
        /\ s[k] = "@"
        /\ \A i \in 1..(k - 1) : s[i] \in AlNum \cup LocalSymbol
        /\ \A i \in (k + 1)..Len(s) : s[i] \in AlNum \cup {"-"}
        /\ s[k + 1] # "-" /\ s[Len(s)] # "-"
        /\ Len(s) - k <= 63

\* C21, amended: isValidEmail accepts user@example.com, rejects not-an-email
\* and every text without an @, and accepts a@b: an address whose domain part
\* is a single label is valid, with or without white space around it
C21_SingleLabelAccepted ==
    last.op = "isValidEmail" =>
        /\ last.res.input = TxtUserAtExampleCom => last.res.output
        /\ last.res.input = TxtNotAnEmail => ~last.res.output
        /\ (\A i \in 1..Len(last.res.input) : last.res.input[i] # "@") => ~last.res.output
        /\ last.res.input = TxtAAtB => last.res.output
        /\ \A pre \in Margins, post \in Margins, s \in {TxtAAtB} \cup {l \o <<"@">> \o d : l \in LocalParts, d \in DomainParts} :
              (last.res.input = pre \o s \o post /\ SingleLabelAddress(s)) => last.res.output

\* isValidEmail has accepted a@b
C21_Witness == last.op = "isValidEmail" /\ last.res.input = TxtAAtB /\ last.res.output = TRUE

\* C22: isValidName(s) is true exactly when s without its surrounding white
\* space has at least 2 characters (the span from the first to the last
\* position of s that holds no white space is 2 or more) and s holds an ASCII
\* letter; Jo is valid, 7 and J are not
C22_NameIffLengthAndLetter ==
    last.op = "isValidName" =>
        LET s == last.res.input
            inner == {i \in 1..Len(s) : s[i] \notin WhiteSpace}
        IN  /\ last.res.output <=>
                  /\ \E i \in inner, j \in inner : j - i + 1 >= 2
                  /\ \E i \in 1..Len(s) : s[i] \in Letter
            /\ s = TxtJo => last.res.output
            /\ s = TxtSeven => ~last.res.output
            /\ s = TxtJ => ~last.res.output

\* isValidName has accepted a name of two characters with white space around
\* it, and one with a single letter and a digit
C22_Witness ==
    /\ last.op = "isValidName"
    /\ last.res.output = TRUE
    /\ Len(last.res.input) > 2
    /\ Cardinality({i \in 1..Len(last.res.input) : last.res.input[i] \in Letter}) = 1
    /\ last.res.input[1] \in WhiteSpace

\* the texts a and b are equal once lower-cased and trimmed
SameAddress(a, b) == trim(toLowerCase(a)) = trim(toLowerCase(b))

\* the positions of the roster as it is now whose entry carries an email
\* equal to the queried one
Listed(email) ==
    IF rosterFile.state # "ok" THEN {}
    ELSE {i \in 1..Len(rosterFile.learners) :
            /\ rosterFile.learners[i] # NullEntry
            /\ rosterFile.learners[i].email # NoEmail
            /\ SameAddress(rosterFile.learners[i].email, email)}

Rejects(t) ==
    \/ cacheInvites(t, FALSE) \/ detectUsedInvite(t, FALSE)
    \/ handleOnboarding(t, FALSE) \/ sendWelcome(t, FALSE)
    \/ interactionResume(t, FALSE)
    \/ handleResponseSent(t, FALSE) \/ errorReplySent(t, FALSE)
    \/ processingSent(t, FALSE) \/ rejectionSent(t, FALSE)
    \/ \E guildFound \in BOOLEAN : appendToSheet(t, FALSE, guildFound)
    \/ \E roleFound \in BOOLEAN, channelFound \in BOOLEAN : memberFetched(t, FALSE, roleFound, channelFound)
    \/ \E channelFound \in BOOLEAN : roleAdded(t, FALSE, channelFound)
    \/ overwriteCreated(t, FALSE) \/ channelWelcomeSent(t, FALSE)
    \/ confirmationSent(t, FALSE) \/ failureSent(t, FALSE)

\* the step is one that ends the process at startup
StartupExit ==
    \/ \E env \in SUBSET requiredEnvVars : env # requiredEnvVars /\ loadModule(env)
    \/ login(FALSE)

\* C24 as stated: a rejected call is caught by the handler that made it, never
\* reaching the process, and the process ends only through a missing required
\* key or a failed login
C24_Original ==
    [][/\ \A t \in Suspended :
             Rejects(t) => process' = "running" /\ last'.res # "unhandledRejection"
       /\ (process # "exited" /\ process' = "exited") => StartupExit
      ]_vars

\* C24, amended: a rejected call never ends the process; it is caught by the
\* handler that made it, except in the interactionCreate handler, whose
\* rejections (reply, update, follow-up) reach the unhandledRejection listener
\* of the process; and the process ends only through a missing required key
\* or a failed login
C24_RejectionsNeverExit ==
    [][/\ \A t \in Suspended :
             Rejects(t) =>
                 /\ process' = "running"
                 /\ last'.res = "unhandledRejection" <=> t.h = "interactionCreate"
       /\ (process # "exited" /\ process' = "exited") => StartupExit
       /\ (process = "exited") => UNCHANGED vars
      ]_vars

\* the update of the start button was rejected, the rejection reached the
\* listener of the process, and the process is running
C24_Witness ==
    /\ last.op = "update"
    /\ last.res = "unhandledRejection"
    /\ process = "running"

\* the run of u has ended: the confirmation was delivered, a record is in the
\* sheet, u holds the role and has no session
Completed(u) ==
    /\ last.op = "sendConfirmation" /\ last.res = "ok" /\ last.user = u
    /\ \E i \in 1..Len(sheet) : sheet[i][3] = TxtEmailPaid
    /\ u \in memberRoles
    /\ onboardingSessions[u] = NoSession

\* the start button of the session of u has not been pressed
AwaitsStart(u) ==
    /\ onboardingSessions[u] # NoSession
    /\ ~sessionObjs[onboardingSessions[u]].started

\* the started session of u is at question k (0-based) and has no answer to it
AwaitsAnswer(u, k) ==
    /\ onboardingSessions[u] # NoSession
    /\ sessionObjs[onboardingSessions[u]].started
    /\ sessionObjs[onboardingSessions[u]].currentStep = k

\* the member does not leave the start button or a question unanswered for ever
MemberGoesOn(u) ==
    /\ []<>(~AwaitsStart(u))
    /\ \A k \in 0..(Len(QUESTION_ORDER) - 1) : []<>(~AwaitsAnswer(u, k))

\* C25: when every external call succeeds, handlers are resumed fairly and the
\* member presses start and answers each question validly with an e-mail of
\* the allow-list, every join is followed by the record appended, the role
\* granted, the confirmation delivered and the session removed
C25_JoinLeadsToCompletion ==
    \A u \in Users :
        MemberGoesOn(u) => ((last.op = "guildMemberAdd" /\ last.user = u) ~> Completed(u))

\* the run of a member has ended with the confirmation after the second join
C25_Witness == \E u \in Users : Completed(u) /\ Len(sheet) = 1 /\ nJoined = MaxJoins

\* the place of an await of finalize in the order of its steps: the notice
\* (after which the allow-list is looked up), the append, the member fetch, the
\* role grant, the overwrite, the public welcome, the confirmation
Stage(pc) ==
    CASE pc = "sendProcessing" -> 0
      [] pc = "appendToSheet" -> 1
      [] pc = "fetchMember" -> 2
      [] pc = "addRole" -> 3
      [] pc = "createOverwrite" -> 4
      [] pc = "sendChannelWelcome" -> 5
      [] pc = "sendConfirmation" -> 6

OffPath == {"sendRejection", "sendFailure"}

\* C26: within one finalize run the steps come in the order lookup, append,
\* member resolution, role grant, overwrite, public welcome, confirmation,
\* session removal.  A step of the run moves it to a later await only; the
\* sheet, the roles and the overwrites change only at the resumption of their
\* own call; a run past the lookup was verified, a run past the append has
\* appended, the public welcome is sent only after the overwrite was created,
\* and a verified run removes the session only after the confirmation
C26_FixedOrder ==
    [][\A t \in Finalizing(tasks) :
          Acts(t) =>
              /\ \A t2 \in Suspended' :
                    (Continues(t, t2) /\ t.pc \notin OffPath /\ t2.pc \notin OffPath)
                       => Stage(t2.pc) > Stage(t.pc)
              /\ sheet' # sheet => t.pc = "appendToSheet"
              /\ memberRoles' # memberRoles => t.pc = "addRole"
              /\ overwrites' # overwrites => t.pc = "createOverwrite"
              /\ t.pc \notin OffPath =>
                    /\ Stage(t.pc) >= 1 => t.verified = "yes"
                    /\ Stage(t.pc) >= 2 <=> "append" \in t.fx
                    /\ "role" \in t.fx => Stage(t.pc) > 3
                    /\ "overwrite" \in t.fx => Stage(t.pc) > 4
                    /\ t.pc = "sendChannelWelcome" => "overwrite" \in t.fx
                    /\ "channelWelcome" \in t.fx => Stage(t.pc) > 5
              /\ (t.verified = "yes" /\ onboardingSessions'[t.user] # onboardingSessions[t.user])
                    => t.pc = "sendConfirmation" /\ RunEnds
      ]_vars

\* a run that appended, granted the role, created the overwrite and posted the
\* public welcome is at its confirmation, the session still registered
C26_Witness ==
    \E t \in Finalizing(tasks) :
        /\ t.pc = "sendConfirmation"
        /\ {"append", "role", "overwrite", "channelWelcome"} \subseteq t.fx
        /\ onboardingSessions[t.user] = t.sid

\* C27: the question index of a session object starts at 0, is never decreased,
\* changes only by +1 and only when a DM of its user is accepted by the
\* validator of the current question, and never exceeds the number of
\* questions.  (A slot holds a new session object when handleOnboarding has
\* just built one in it, and none when it is Free.)
C27_IndexMonotone ==
    [][\A i \in Slots :
          LET created == \E t \in Suspended : handleOnboarding(t, TRUE) /\ last'.sid = i
              step == sessionObjs[i].currentStep
          IN  /\ created => sessionObjs'[i].currentStep = 0
              /\ (~created /\ sessionObjs[i] = Free) => sessionObjs'[i] = Free
              /\ (~created /\ sessionObjs[i] # Free /\ sessionObjs'[i] # Free) =>
                    \/ sessionObjs'[i].currentStep = step
                    \/ /\ sessionObjs'[i].currentStep = step + 1
                       /\ \E u \in Users, text \in Texts :
                             /\ messageCreate(u, text, "dm")
                             /\ onboardingSessions[u] = i
                             /\ sessionObjs[i].started
                             /\ validator(QUESTION_ORDER[step + 1], sanitizeInput(text))
              /\ sessionObjs'[i].currentStep \in 0..3
      ]_vars

\* a DM has reached a session whose index is 3, and the index is still 3
C27_Witness ==
    /\ last.op = "messageCreate" /\ last.res = "type_error"
    /\ onboardingSessions[last.user] # NoSession
    /\ sessionObjs[onboardingSessions[last.user]].currentStep = Len(QUESTION_ORDER)

\* the channel name a join handler keeps for the invite code it detected
\* (res: the code, or "none" / "fail" when none was detected)
ChannelNameFor(res) ==
    IF res \in Codes /\ ChannelOfCode(res) # NoChannel THEN ChannelOfCode(res).name
    ELSE "Unknown"

C28_WitnessCourse ==
    /\ last.op = "appendToSheet"
    /\ \E i \in 1..Len(sheet) : sheet[i][6] = "course-a"

\* C29 as stated: the confirmation DM of a finalize run carries the link to
\* the channel exactly when that run created the member's permission
\* overwrite on the channel
C29_Original ==
    [][\A t \in Suspended :
          (\E ok \in BOOLEAN : confirmationSent(t, ok)) =>
              (t.msg = "CONFIRMATION_WITH_LINK" <=> "overwrite" \in t.fx)
      ]_vars

\* what the source does instead: the link goes out exactly when the session
\* has a channel id, whatever became of the access
C29_LinkIffChannelId ==
    [][\A t \in Suspended :
          (\E ok \in BOOLEAN : confirmationSent(t, ok)) =>
              /\ t.msg = "CONFIRMATION_WITH_LINK" <=> sessionObjs[t.sid].channelId # NoId
              /\ "overwrite" \in t.fx => t.msg = "CONFIRMATION_WITH_LINK"
      ]_vars

\* a confirmation with the link was delivered in a run whose overwrite failed
C29_LinkWithoutAccess ==
    /\ last.op = "sendConfirmation" /\ last.res = "ok"
    /\ overwrites = {}
    /\ sheet # <<>>
    /\ \E i \in 1..Len(sheet) : sheet[i][6] = "course-a"

\* C30 as stated: the join handler registers a session with index 0, no
\* answers and started = FALSE while the welcome send is still pending, and
\* when the DM channel cannot be created or the welcome cannot be sent the
\* registry holds no session of the member once the handler has finished
C30_Original ==
    [][\A t \in Suspended :
          /\ handleOnboarding(t, TRUE) =>
                /\ onboardingSessions'[t.user] = last'.sid
                /\ sessionObjs'[last'.sid].currentStep = 0
                /\ sessionObjs'[last'.sid].data = NoData
                /\ sessionObjs'[last'.sid].started = FALSE
                /\ \E t2 \in Suspended' : t2.pc = "sendWelcome" /\ t2.user = t.user
          /\ handleOnboarding(t, FALSE) => onboardingSessions'[t.user] = NoSession
          /\ sendWelcome(t, FALSE) => onboardingSessions'[t.user] = NoSession
      ]_vars

\* C30, amended: as above, except that a handler whose DM channel cannot be
\* created registers nothing and leaves the registry as it found it, so that
\* a session of an earlier join of the same member stays; a handler whose
\* welcome cannot be sent leaves no session of the member
C30_SessionOnJoin ==
    [][\A t \in Suspended :
          /\ handleOnboarding(t, TRUE) =>
                /\ onboardingSessions'[t.user] = last'.sid
                /\ sessionObjs'[last'.sid].currentStep = 0
                /\ sessionObjs'[last'.sid].data = NoData
                /\ sessionObjs'[last'.sid].started = FALSE
                /\ \E t2 \in Suspended' : t2.pc = "sendWelcome" /\ t2.user = t.user
          /\ handleOnboarding(t, FALSE) =>
                /\ onboardingSessions' = onboardingSessions
                /\ sessionObjs' = sessionObjs
          /\ sendWelcome(t, FALSE) => onboardingSessions'[t.user] = NoSession
      ]_vars

\* a member with a session of an earlier join joined again, the DM channel
\* could not be created, and the handler finished with the session in place
C30_Witness ==
    /\ last.op = "handleOnboarding" /\ last.res = "fail"
    /\ onboardingSessions[last.user] # NoSession
    /\ \A t \in Suspended : t.h # "guildMemberAdd"

\* the welcome of a join could not be sent and the member has no session
C30_WitnessWelcome ==
    /\ last.op = "sendWelcome" /\ last.res = "fail"
    /\ onboardingSessions[last.user] = NoSession
    /\ last.sid # NoSession

\* C31: a click on the start button by a user with a session sets started and
\* leaves the index, the answers, every other session and the registry as they
\* were, whatever the index is; once the button message is updated the prompt
\* of the first question is sent.  A click by a user without a session gets
\* the reply 'session not found' and changes neither sessions nor registry
\* nor any other state of the program
C31_StartAcknowledgment ==
    [][/\ \A u \in Users :
             interactionCreate(u, TRUE, "start_onboarding") =>
                 LET sid == onboardingSessions[u]
                 IN  /\ onboardingSessions' = onboardingSessions
                     /\ <<invites, sheet, memberRoles, overwrites, process>>' =
                           <<invites, sheet, memberRoles, overwrites, process>>
                     /\ NumTasks' = NumTasks + 1
                     /\ IF sid # NoSession
                        THEN /\ sessionObjs'[sid].started
                             /\ sessionObjs'[sid].currentStep = sessionObjs[sid].currentStep
                             /\ sessionObjs'[sid].data = sessionObjs[sid].data
                             /\ \A i \in Slots \ {sid} : sessionObjs'[i] = sessionObjs[i]
                             /\ \E t2 \in Suspended' :
                                   t2.h = "interactionCreate" /\ t2.pc = "update" /\ t2.user = u
                        ELSE /\ sessionObjs' = sessionObjs
                             /\ \E t2 \in Suspended' :
                                   /\ t2.h = "interactionCreate" /\ t2.pc = "reply"
                                   /\ t2.user = u /\ t2.msg = "SESSION_NOT_FOUND"
       /\ \A t \in Suspended :
             /\ (t.h = "interactionCreate" /\ t.pc = "update" /\ interactionResume(t, TRUE)) =>
                   \E t2 \in Suspended' :
                       /\ t2.h = "interactionCreate" /\ t2.pc = "followUp" /\ t2.user = t.user
                       /\ t2.msg = QUESTIONS["NAME"].question
             /\ (\E ok \in BOOLEAN : interactionResume(t, ok)) =>
                   /\ sessionObjs' = sessionObjs
                   /\ onboardingSessions' = onboardingSessions
      ]_vars

\* the start button was clicked by a member whose session is at the second
\* question with the name stored, and the session is as it was
C31_Witness ==
    /\ last.op = "interactionCreate" /\ last.res = "started"
    /\ sessionObjs[last.sid].currentStep = 1
    /\ sessionObjs[last.sid].data.name # Undefined
    /\ sessionObjs[last.sid].started

\* the start button was clicked by a user without a session
C31_WitnessNoSession ==
    /\ last.op = "interactionCreate" /\ last.res = "no_session"
    /\ \A u \in Users : onboardingSessions[u] = NoSession
    /\ \E t \in Suspended : t.msg = "SESSION_NOT_FOUND"

\* C32: the registry entry of a user changes from a session to something
\* else only in a step of a handler of that user that is the delivered
\* rejection or the delivered confirmation of finalize, a failed welcome
\* send, or the registration of the session of a new join; no DM, click,
\* invite event or other step changes it.  Hence, while no join handler
\* and no finalize run of the user is in flight, the session stays
C32_LeavesOnlyBy ==
    [][\A u \in Users :
          /\ (onboardingSessions[u] # NoSession /\ onboardingSessions'[u] # onboardingSessions[u]) =>
                \E t \in Suspended :
                    /\ t.user = u
                    /\ \/ confirmationSent(t, TRUE)
                       \/ rejectionSent(t, TRUE)
                       \/ sendWelcome(t, FALSE)
                       \/ handleOnboarding(t, TRUE)
          /\ ( /\ onboardingSessions[u] # NoSession
               /\ \A t \in Suspended :
                     t.user = u => (t.h # "guildMemberAdd" /\ t.sid = NoSession) ) =>
                /\ onboardingSessions'[u] = onboardingSessions[u]
                /\ sessionObjs'[onboardingSessions[u]] # Free
      ]_vars

\* the session of a member who never pressed the start button is in the
\* registry after both joins are over and invite B was created and deleted,
\* with no handler in flight
C32_Witness ==
    /\ last.op = "inviteDelete"
    /\ nJoined = MaxJoins
    /\ Suspended = {}
    /\ onboardingSessions["u1"] # NoSession
    /\ ~sessionObjs[onboardingSessions["u1"]].started

\* code c is in the cache inv of guild g
InCache(inv, g, c) == inv[g].has /\ c \in DOMAIN inv[g].uses
\* the guild has an invite with code c
OnPlatform(g, c) == \E i \in 1..Len(guildInvites[g]) : guildInvites[g][i].code = c

\* C33 as stated: a code that was deleted, is not in the cache and has not
\* been created again (the guild has no such invite, so that no fetch issued
\* now returns it) comes into the cache only by an invite-create event for it
C33_Original ==
    [][\A g \in Guilds, c \in Codes :
          (~InCache(invites, g, c) /\ ~OnPlatform(g, c) /\ InCache(invites', g, c)) =>
              inviteCreate(g, c)
      ]_vars

\* the cache holds invite B although the guild has no invite B: a join
\* handler whose fetch was issued before the deletion has resumed after it
C33_DeletedCodeIsBack ==
    /\ last.op = "detectUsedInvite"
    /\ InCache(invites, "g1", "B")
    /\ ~OnPlatform("g1", "B")
    /\ \A t \in Suspended : t.pc # "fetchInvites"

\* the j-th field of the order name, email, phone holds a valid value v
FieldValid(j, v) ==
    CASE j = 1 -> isValidName(v)
      [] j = 2 -> isValidEmail(v)
      [] j = 3 -> isValidPhone(v)

\* C34: in every reachable state every session of the registry has stored
\* exactly the first currentStep fields of name, email, phone, each stored
\* value passes the validator of its field, and every row of the sheet has a
\* valid name, a valid e-mail and a valid phone
C34_AnswersMatchIndex ==
    /\ \A u \in Users :
          onboardingSessions[u] # NoSession =>
              LET session == sessionObjs[onboardingSessions[u]]
              IN  /\ session.currentStep \in 0..3
                  /\ \A j \in 1..3 :
                        /\ (session.data[FieldOrder[j]] # Undefined) <=> (j <= session.currentStep)
                        /\ (session.data[FieldOrder[j]] # Undefined) =>
                              FieldValid(j, session.data[FieldOrder[j]])
    /\ \A i \in 1..Len(sheet) :
          /\ isValidName(sheet[i][2])
          /\ isValidEmail(sheet[i][3])
          /\ isValidPhone(sheet[i][4])

\* a record was appended for a session of the registry that has its three
\* answers stored
C34_Witness ==
    /\ last.op = "appendToSheet" /\ last.res = "ok"
    /\ Len(sheet) = 1
    /\ onboardingSessions["u1"] # NoSession
    /\ sessionObjs[onboardingSessions["u1"]].currentStep = 3
    /\ sessionObjs[onboardingSessions["u1"]].data.phone # Undefined

\* a session of the registry has two of the three answers stored
C34_WitnessPartial ==
    /\ onboardingSessions["u1"] # NoSession
    /\ sessionObjs[onboardingSessions["u1"]].currentStep = 2
    /\ sessionObjs[onboardingSessions["u1"]].data.email # Undefined
    /\ sessionObjs[onboardingSessions["u1"]].data.phone = Undefined

\* the handlers in flight that run finalize for session object sid
RunsOf(tks, sid) == {t \in BagToSet(tks) : t.sid = sid}

\* C35: finalize is started at most once for a session and at most one record
\* is appended for it.  A step starts a finalize run for a session only by
\* storing its third answer, when no run for it is in flight; a session at
\* index 3 without a run never gets one; no two runs are in flight for one
\* session; a run appends at most once, so that there are never more records
\* than joins.  A DM to a session at index 3, with its finalize suspended or
\* failed, changes no session, starts no run and only gets the error reply
C35_FinalizeOnce ==
    [][/\ \A sid \in Slots :
             /\ \A t \in RunsOf(tasks', sid) : CopiesIn(t, tasks') = 1
             /\ Cardinality(RunsOf(tasks', sid)) <= 1
             /\ (RunsOf(tasks, sid) = {} /\ RunsOf(tasks', sid) # {}) =>
                   /\ sessionObjs[sid] # Free
                   /\ sessionObjs[sid].currentStep = 2
                   /\ sessionObjs'[sid].currentStep = 3
                   /\ \E text \in Texts : messageCreate(sessionObjs[sid].userId, text, "dm")
       /\ \A t \in Suspended :
             (\E ok \in BOOLEAN, guildFound \in BOOLEAN : appendToSheet(t, ok, guildFound)) =>
                 /\ "append" \notin t.fx
                 /\ Len(sheet') <= Len(sheet) + 1
       /\ Len(sheet') <= nJoined'
       /\ \A u \in Users, text \in Texts :
             ( /\ messageCreate(u, text, "dm")
               /\ onboardingSessions[u] # NoSession
               /\ sessionObjs[onboardingSessions[u]].started
               /\ sessionObjs[onboardingSessions[u]].currentStep = 3 ) =>
                 /\ sessionObjs' = sessionObjs
                 /\ onboardingSessions' = onboardingSessions
                 /\ \A sid \in Slots : RunsOf(tasks', sid) = RunsOf(tasks, sid)
                 /\ sheet' = sheet
                 /\ \E t2 \in Suspended' :
                       /\ t2.h = "messageCreate" /\ t2.pc = "sendErrorReply"
                       /\ t2.msg = "ERROR_REPLY" /\ t2.user = u
                 /\ NumTasks' = NumTasks + 1
      ]_vars

\* a DM arrived for a session kept at index 3 after its finalize failed on
\* the append: there is no run, no record, and the error reply is being sent
C35_Witness ==
    /\ last.op = "messageCreate" /\ last.res = "type_error"
    /\ onboardingSessions["u1"] = last.sid
    /\ sessionObjs[last.sid].currentStep = 3
    /\ RunsOf(tasks, last.sid) = {}
    /\ sheet = <<>>
    /\ \E t \in Suspended : t.pc = "sendErrorReply"

\* a DM arrived while the finalize of the session is suspended on the append
C35_WitnessSuspended ==
    /\ last.op = "messageCreate" /\ last.res = "type_error"
    /\ \E t \in RunsOf(tasks, last.sid) : t.pc = "appendToSheet"

\* C36: every DM that is accepted, whatever handlers of the user are still
\* suspended on a send, is validated against the question at the index of
\* the session at that moment, is stored under the field of that question,
\* which held nothing before, and advances the index by one in the same
\* step; the other fields keep their values.  So no field is stored twice
\* and no question is passed over
C36_OneAnswerPerQuestion ==
    [][\A u \in Users, text \in Texts :
          ( /\ messageCreate(u, text, "dm")
            /\ onboardingSessions[u] # NoSession
            /\ sessionObjs' # sessionObjs ) =>
              LET sid == onboardingSessions[u]
                  k == sessionObjs[sid].currentStep
              IN  /\ k \in 0..2
                  /\ FieldValid(k + 1, sanitizeInput(text))
                  /\ sessionObjs[sid].data[FieldOrder[k + 1]] = Undefined
                  /\ sessionObjs'[sid].data[FieldOrder[k + 1]] = sanitizeInput(text)
                  /\ \A j \in (1..3) \ {k + 1} :
                        sessionObjs'[sid].data[FieldOrder[j]] = sessionObjs[sid].data[FieldOrder[j]]
                  /\ sessionObjs'[sid].currentStep = k + 1
                  /\ \A i \in Slots \ {sid} : sessionObjs'[i] = sessionObjs[i]
      ]_vars

\* the e-mail was accepted while the handler of the name is still suspended
\* on the send of the e-mail prompt
C36_Witness ==
    /\ last.op = "messageCreate" /\ last.res = "stored"
    /\ sessionObjs[last.sid].currentStep = 2
    /\ \E t1 \in Suspended, t2 \in Suspended :
          /\ t1.pc = "sendNext" /\ t1.msg = "Q_EMAIL" /\ t1.user = last.user
          /\ t2.pc = "sendNext" /\ t2.msg = "Q_PHONE" /\ t2.user = last.user

\* C37 as stated: when a finalize run ends with the delivered rejection or
\* the delivered confirmation while the registry holds another session of
\* the user than the one the run holds, that session stays in the registry
C37_Original ==
    [][\A t \in Suspended :
          ( /\ confirmationSent(t, TRUE) \/ rejectionSent(t, TRUE)
            /\ onboardingSessions[t.user] # NoSession
            /\ onboardingSessions[t.user] # t.sid ) =>
              onboardingSessions'[t.user] = onboardingSessions[t.user]
      ]_vars

\* the confirmation of the finalize of the first session was delivered after
\* the member had joined again and the welcome of the second join had been
\* sent: the registry holds no session of the member
C37_NewerSessionRemoved ==
    /\ last.op = "sendConfirmation" /\ last.res = "ok"
    /\ nJoined = 2
    /\ Suspended = {}
    /\ Len(sheet) = 1
    /\ onboardingSessions["u1"] = NoSession

\* the registry maps every user to no session or to one session object,
\* which is that user's; a session object outside the registry is held by a
\* finalize run
OnePerUser(reg, objs, tks) ==
    /\ reg \in [Users -> Slots \cup {NoSession}]
    /\ \A u \in Users : reg[u] # NoSession => (objs[reg[u]] # Free /\ objs[reg[u]].userId = u)
    /\ \A i \in Slots :
          (objs[i] # Free /\ \A u \in Users : reg[u] # i) => \E t \in BagToSet(tks) : t.sid = i

\* C38: the registry holds at most one session per user in every state.  When
\* a join handler of a user who has a session registers its session, the
\* entry of the user is a new session with index 0, no answers and started
\* FALSE, and the session and the answers that were there are out of the
\* registry; DMs of the user are then ignored, until the start button is
\* pressed
C38_RejoinReplaces ==
    [][/\ OnePerUser(onboardingSessions', sessionObjs', tasks')
       /\ \A t \in Suspended :
             (handleOnboarding(t, TRUE) /\ onboardingSessions[t.user] # NoSession) =>
                 LET new == sessionObjs'[onboardingSessions'[t.user]]
                 IN  /\ onboardingSessions'[t.user] # NoSession
                     /\ new.currentStep = 0
                     /\ new.data = NoData
                     /\ ~new.started
                     /\ \A i \in Slots \ {onboardingSessions'[t.user]} :
                           sessionObjs'[i] # Free => \E t2 \in Suspended' : t2.sid = i
                     /\ dispatch(t.user, "dm")' = "not_started"
       /\ \A u \in Users, text \in Texts :
             ( /\ messageCreate(u, text, "dm")
               /\ onboardingSessions[u] # NoSession
               /\ ~sessionObjs[onboardingSessions[u]].started ) =>
                 /\ sessionObjs' = sessionObjs
                 /\ tasks' = tasks
                 /\ onboardingSessions' = onboardingSessions
      ]_vars

\* a member whose first session has its three answers and is being finalized
\* joined again: the registry holds the new, empty session, and a DM of the
\* member has just been ignored
C38_Witness ==
    /\ last.op = "messageCreate" /\ last.res = "not_started"
    /\ nJoined = 2
    /\ onboardingSessions["u1"] # NoSession
    /\ sessionObjs[onboardingSessions["u1"]].data = NoData
    /\ \E t \in Suspended :
          /\ t.sid # NoSession /\ t.sid # onboardingSessions["u1"]
          /\ sessionObjs[t.sid].data.phone # Undefined

====
